---- MODULE Spec2Model ----
(***************************************************************************)
(* ConOps reconciliation core: the state store (apps + app_credentials),   *)
(* the registry facade, the Git watcher (supervisor + per-app pollers),    *)
(* the reconciler loop, and the HTTP handlers register / force-sync /      *)
(* delete, as concurrent actors exchanging information through the store.  *)
(* Every action performs at most one store statement, so every             *)
(* interleaving of store statements of the Go program is a behaviour here. *)
(***************************************************************************)
EXTENDS Integers, Sequences, FiniteSets, TLC

(***************************************************************************)
(* Bounds of the model.                                                    *)
(***************************************************************************)
\* commits on the tracked branch are numbered 1..MaxCommit; 0 is the empty hash ""
MaxCommit == 2

\* ids uuid.NewString() can hand out
AppIds == {"a1"}
\* handler goroutines serving POST /apps/{id}/sync; the reconciler is the other syncing actor
Reqs == {1}
Commits == 1..MaxCommit

\* the empty commit hash ""
NoCommit == 0
\* timestamps: the zero time.Time{}, a value returned by time.Now(), and a nil *time.Time
ZeroTime == "zero"
Now == "now"
NilTime == "nil"
Times == {Now}

(***************************************************************************)
(* Data model.                                                             *)
(***************************************************************************)
MethodPublic == "public"
MethodDeployKey == "deploy_key"
Methods == {MethodPublic, MethodDeployKey}

\* subject line recorded for a commit (gitwatcher.go commitSubject); 0 is ""
CommitSubject(c) == IF c = NoCommit THEN 0 ELSE 10 + c

\* transcripts returned by Apply / passed to the progress callback
OutNone == ""
OutPartial == "transcript_partial"
OutOk == "transcript_completed"
OutFail == "transcript_failed"
\* err.Error() of a failed Apply
ErrNone == ""
ErrApply == "apply failed"

\* absence of a row in table apps
NoRow == [exists |-> FALSE]

\* the row inserted by CreateApp for a freshly registered app
NewApp(method) ==
  [exists |-> TRUE, method |-> method, status |-> "pending",
   seen |-> NoCommit, seenMsg |-> CommitSubject(NoCommit),
   synced |-> NoCommit, syncedMsg |-> CommitSubject(NoCommit),
   out |-> OutNone, err |-> ErrNone, at |-> ZeroTime]

VARIABLES
  apps,      \* table apps: id -> row or NoRow
  creds,     \* table app_credentials: set of app ids that have a row
  minted,    \* ids handed out by uuid.NewString() so far
  remote,    \* tip commit of the tracked branch of each app's repository
  rec,       \* the reconciler goroutine
  fs,        \* the force-sync request handlers
  del,       \* the DELETE request handler
  reg,       \* the POST /apps request handler
  pollers,   \* the watcher supervisor's poller map and the poller goroutines
  retry,     \* ReconcilerConfig.RetryErrors
  resp,      \* the HTTP response written by the last step (NoResp: none)
  deleted,   \* ids for which DELETE /apps/{id} has returned 200
  ctx,       \* the root context of main: "live" or "cancelled"
  sup,       \* the watcher supervisor goroutine: "running" or "stopped"
  lib        \* the last call of a library function: its name, argument and result

vars == <<apps, creds, minted, remote, rec, fs, del, reg, pollers, retry, resp, deleted,
          ctx, sup, lib>>

(***************************************************************************)
(* HTTP responses.                                                         *)
(***************************************************************************)
NoResp == [h |-> "none", code |-> 0]
Response(h, code) == [h |-> h, code |-> code]

(***************************************************************************)
(* State store (internal/store).                                           *)
(***************************************************************************)
RowExists(s, id) == s[id] # NoRow

\* a commit write that leaves the status column alone
UpdateAppCommitKeepStatus(s, id, hash, msg) ==
  IF RowExists(s, id)
    THEN [s EXCEPT ![id].seen = hash, ![id].seenMsg = msg]
    ELSE s

\* UPDATE apps SET last_seen_commit, last_seen_commit_message, status='pending'
UpdateAppCommit(s, id, hash, msg) ==
  IF RowExists(s, id)
    THEN [s EXCEPT ![id].seen = hash, ![id].seenMsg = msg, ![id].status = "pending"]
    ELSE s

\* RowsAffected() == 0: the statement matched no row and "app not found" is returned
AppNotFound(s, id) == ~RowExists(s, id)

\* a status write that inserts the row when no row matches
UpdateAppStatusInsert(s, id, status, at) ==
  [s EXCEPT ![id] = [IF RowExists(s, id) THEN s[id] ELSE NewApp(MethodPublic)
                       EXCEPT !.status = status,
                              !.at = IF at = NilTime THEN @ ELSE at]]

\* UPDATE apps SET status [, last_sync_at]
UpdateAppStatus(s, id, status, at) ==
  IF RowExists(s, id)
    THEN IF at = NilTime
           THEN [s EXCEPT ![id].status = status]
           ELSE [s EXCEPT ![id].status = status, ![id].at = at]
    ELSE s

\* a progress write that also resets last_seen_commit
UpdateAppSyncProgressResetSeen(s, id, at, out) ==
  IF RowExists(s, id)
    THEN [s EXCEPT ![id].status = "syncing", ![id].at = at,
                   ![id].out = out, ![id].err = ErrNone,
                   ![id].seen = NoCommit, ![id].seenMsg = CommitSubject(NoCommit)]
    ELSE s

\* UPDATE apps SET status='syncing', last_sync_at, last_sync_output, last_sync_error=''
UpdateAppSyncProgress(s, id, at, out) ==
  IF RowExists(s, id)
    THEN [s EXCEPT ![id].status = "syncing", ![id].at = at,
                   ![id].out = out, ![id].err = ErrNone]
    ELSE s

\* a terminal write that inserts the row when no row matches
UpdateAppSyncResultUpsert(s, id, status, at, commit, msg, out, err) ==
  [s EXCEPT ![id] = [exists |-> TRUE,
                     method |-> IF RowExists(s, id) THEN s[id].method ELSE MethodPublic,
                     status |-> status,
                     seen |-> IF RowExists(s, id) THEN s[id].seen ELSE NoCommit,
                     seenMsg |-> IF RowExists(s, id) THEN s[id].seenMsg
                                                      ELSE CommitSubject(NoCommit),
                     synced |-> commit, syncedMsg |-> msg,
                     out |-> out, err |-> err, at |-> at]]

\* the terminal write of a sync
UpdateAppSyncResult(s, id, status, at, commit, msg, out, err) ==
  IF RowExists(s, id)
    THEN [s EXCEPT ![id].status = status, ![id].at = at,
                   ![id].synced = commit, ![id].syncedMsg = msg,
                   ![id].out = out, ![id].err = err]
    ELSE s

\* DELETE FROM apps WHERE id = ? (the transaction rolls back when no row matched)
DeleteAppRows(s, id) == [s EXCEPT ![id] = NoRow]
\* DELETE FROM app_credentials WHERE app_id = ?
DeleteAppCredential(c, id) == c \ {id}

\* INSERT INTO app_credentials ... ; app_id REFERENCES apps(id): fails without the app row
UpsertAppCredential(s, c, id) == IF RowExists(s, id) THEN c \cup {id} ELSE c

(***************************************************************************)
(* Runtime snapshot (compose.SnapshotProjects) and drift detection.        *)
(***************************************************************************)
ProjectRuntimeState(n, r, e, u) ==
  [ContainerCount |-> n, RunningCount |-> r, ExitedCount |-> e, UnhealthyCount |-> u]

\* project states a snapshot can hold for an app
SnapStates == {ProjectRuntimeState(1, 1, 0, 0), ProjectRuntimeState(1, 0, 1, 0)}
\* the project has no entry in the snapshot map
Absent == ProjectRuntimeState(0, 0, 0, 0)
\* runtimeSnapshot == nil: capture failed, drift checks are skipped
NilSnap == [nil |-> TRUE]
Snapshots == {NilSnap} \cup [AppIds -> SnapStates \cup {Absent}]

IsHealthy(st) ==
  IF st.ContainerCount = 0
    THEN FALSE
    ELSE st.RunningCount = st.ContainerCount /\ st.ExitedCount = 0 /\ st.UnhealthyCount = 0

\* a drift check whose last comparison is not strict
runtimeDriftReasonNotStrict(id, snapshot) ==
  LET st == snapshot[id] IN
  IF st = Absent \/ st.ContainerCount = 0 THEN "runtime_missing"
  ELSE IF st.UnhealthyCount > 0 THEN "runtime_unhealthy"
  ELSE IF st.ExitedCount > 0 THEN "runtime_exited"
  ELSE IF st.RunningCount <= st.ContainerCount THEN "runtime_not_running"
  ELSE ""

\* a drift check that looks at exited containers before unhealthy ones
runtimeDriftReasonExitedFirst(id, snapshot) ==
  LET st == snapshot[id] IN
  IF st = Absent \/ st.ContainerCount = 0 THEN "runtime_missing"
  ELSE IF st.ExitedCount > 0 THEN "runtime_exited"
  ELSE IF st.UnhealthyCount > 0 THEN "runtime_unhealthy"
  ELSE IF st.RunningCount < st.ContainerCount THEN "runtime_not_running"
  ELSE ""

runtimeDriftReason(id, snapshot) ==
  LET st == snapshot[id] IN
  IF st = Absent \/ st.ContainerCount = 0 THEN "runtime_missing"
  ELSE IF st.UnhealthyCount > 0 THEN "runtime_unhealthy"
  ELSE IF st.ExitedCount > 0 THEN "runtime_exited"
  ELSE IF st.RunningCount < st.ContainerCount THEN "runtime_not_running"
  ELSE ""

(***************************************************************************)
(* Reconciler (internal/controller/reconciler.go).                         *)
(***************************************************************************)
\* the *App copies returned by Registry.List(): the fields the actors read
AppCopy(id, row) ==
  [id |-> id, status |-> row.status, seen |-> row.seen, seenMsg |-> row.seenMsg,
   synced |-> row.synced, syncedMsg |-> row.syncedMsg, method |-> row.method]

RECURSIVE SeqOfSet(_)
SeqOfSet(S) == IF S = {} THEN <<>>
               ELSE LET x == CHOOSE y \in S : TRUE IN <<x>> \o SeqOfSet(S \ {x})

\* Registry.List(): one SELECT over table apps
ListApps(s) == LET ids == SeqOfSet({id \in AppIds : RowExists(s, id)})
               IN [i \in 1..Len(ids) |-> AppCopy(ids[i], s[ids[i]])]

RecIdle == [pc |-> "idle", running |-> FALSE, list |-> <<>>, idx |-> 0, snap |-> NilSnap]

\* a loop body without the recovery of interrupted syncs
NeedsRequeueNoRecovery(app, snap) ==
  /\ app.seen # NoCommit
  /\ app.status = "synced"
  /\ snap # NilSnap
  /\ runtimeDriftReason(app.id, snap) # ""

\* a loop body without the runtime drift check
NeedsRequeueIgnoreDrift(app, snap) ==
  app.status = "syncing"

\* the first statement of the loop body and the drift check: is requeuePending called?
NeedsRequeue(app, snap) ==
  \/ app.status = "syncing"
  \/ /\ app.seen # NoCommit
     /\ app.status = "synced"
     /\ snap # NilSnap
     /\ runtimeDriftReason(app.id, snap) # ""

\* a switch that retries error apps whatever the configuration says
ShouldDispatchAnyError(status, retryErrors) ==
  \/ status = "pending"
  \/ status = "error"

\* the switch on app.Status that ends the loop body
ShouldDispatch(status, retryErrors) ==
  \/ status = "pending"
  \/ status = "error" /\ retryErrors

\* the loop moves to the next app; after the last one the deferred reset of running runs
RecAdvance(r) ==
  IF r.idx < Len(r.list)
    THEN [r EXCEPT !.pc = "iter", !.idx = r.idx + 1]
    ELSE RecIdle

RecCur == rec.list[rec.idx]

\* reconcileOnce entry: the running guard, captureRuntimeSnapshot, Registry.List
RecTick(snap) ==
  /\ ctx = "live"
  /\ rec.pc = "idle"
  /\ ~rec.running
  /\ LET l == ListApps(apps) IN
     rec' = IF l = <<>> THEN RecIdle
            ELSE [pc |-> "iter", running |-> TRUE, list |-> l, idx |-> 1, snap |-> snap]
  /\ resp' = NoResp
  /\ UNCHANGED <<apps, creds, minted, remote, fs, del, reg, pollers, retry, deleted, ctx, sup, lib>>

\* requeuePending: UpdateStatus(pending); the copy is updated only when the write succeeded
RecRequeue ==
  /\ rec.pc = "iter"
  /\ NeedsRequeue(RecCur, rec.snap)
  /\ apps' = UpdateAppStatus(apps, RecCur.id, "pending", NilTime)
  /\ rec' = [rec EXCEPT !.pc = "dispatch",
                        !.list[rec.idx].status =
                           IF RowExists(apps, RecCur.id) THEN "pending" ELSE @]
  /\ resp' = NoResp
  /\ UNCHANGED <<creds, minted, remote, fs, del, reg, pollers, retry, deleted, ctx, sup, lib>>

\* rest of the loop body: skip the app, or enter syncApp: UpdateStatus(syncing), then
\* GetDeployKey (a read of app_credentials that fails only when decryption fails,
\* which the key held for the whole process lifetime excludes) and the call of Apply
RecDispatch ==
  /\ \/ rec.pc = "dispatch"
     \/ rec.pc = "iter" /\ ~NeedsRequeue(RecCur, rec.snap)
  /\ IF RecCur.seen # NoCommit /\ ShouldDispatch(RecCur.status, retry)
       THEN /\ apps' = UpdateAppStatus(apps, RecCur.id, "syncing", NilTime)
            /\ rec' = [rec EXCEPT !.pc = "apply"]
       ELSE /\ apps' = apps
            /\ rec' = RecAdvance(rec)
  /\ resp' = NoResp
  /\ UNCHANGED <<creds, minted, remote, fs, del, reg, pollers, retry, deleted, ctx, sup, lib>>

\* a syncApp that re-applies the commit of the last successful sync
RecApplyCommitSynced(app) == app.synced

\* the commit argument syncApp passes to Executor.Apply
RecApplyCommit(app) == app.seen

\* is the context syncApp passes to Executor.Apply done when the root context is in
\* state root? It is context.WithTimeout(context.Background(), SyncTimeout): never
\* because of the root context (its deadline is one of the ways an Apply fails)
RecSyncCtxDone(root) == FALSE

\* syncApp: Executor.Apply returned; the terminal UpdateSyncResult
RecApplyReturn(ok, now) ==
  /\ rec.pc = "apply"
  /\ ok => ~RecSyncCtxDone(ctx)
  /\ apps' = IF ok
               THEN UpdateAppSyncResult(apps, RecCur.id, "synced", now,
                                        RecCur.seen, RecCur.seenMsg, OutOk, ErrNone)
               ELSE UpdateAppSyncResult(apps, RecCur.id, "error", now,
                                        RecCur.synced, RecCur.syncedMsg, OutFail, ErrApply)
  /\ rec' = RecAdvance(rec)
  /\ resp' = NoResp
  /\ UNCHANGED <<creds, minted, remote, fs, del, reg, pollers, retry, deleted, ctx, sup, lib>>

(***************************************************************************)
(* POST /apps/{id}/sync (Handler.ForceSyncApp) and its progress reporter.  *)
(***************************************************************************)
\* the fields of the *App returned by Registry.Get that ForceSyncApp reads later
FsCopy(id, row) ==
  [id |-> id, seen |-> row.seen, seenMsg |-> row.seenMsg,
   synced |-> row.synced, syncedMsg |-> row.syncedMsg]

\* a handler slot with no request in flight
\* last: lastValue of the syncProgressReporter; ok: Apply returned a nil error
\* gone: the client has disconnected (r.Context() is done); ctxDone: syncCtx is done
FsIdle == [pc |-> "idle", app |-> NoRow, last |-> OutNone, ok |-> FALSE,
           gone |-> FALSE, ctxDone |-> FALSE]

\* a handler without the 409 guard
ForceSyncNeverRejects(row) == FALSE

\* "sync already in progress": the 409 guard
ForceSyncRejects(row) == row.status = "syncing"

\* the commit argument ForceSyncApp passes to Applier.Apply: "" (the branch tip is applied)
FsApplyCommit(app) == NoCommit

\* a syncCtx derived from the request context
SyncCtxFromRequest(requestDone) == requestDone

\* is syncCtx done when the request context is done (requestDone)? It is
\* context.WithTimeout(context.Background(), 10*time.Minute): never because of the request
SyncCtxDone(requestDone) == FALSE

\* Registry.Get and the 404 / 409 exits; a request is served by the lowest free slot
FsGet(r, id) ==
  /\ fs[r].pc = "idle"
  /\ \A q \in Reqs : q < r => fs[q].pc # "idle"
  /\ IF ~RowExists(apps, id)
       THEN fs' = fs /\ resp' = Response("sync", 404)
     ELSE IF ForceSyncRejects(apps[id])
       THEN fs' = fs /\ resp' = Response("sync", 409)
     ELSE /\ fs' = [fs EXCEPT ![r] = [FsIdle EXCEPT !.pc = "mark", !.app = FsCopy(id, apps[id])]]
          /\ resp' = NoResp
  /\ UNCHANGED <<apps, creds, minted, remote, rec, del, reg, pollers, retry, deleted, ctx, sup, lib>>

\* UpdateStatus(syncing, &syncStartedAt), an error is only logged; GetDeployKey;
\* Applier.Apply is called
FsMark(r, now) ==
  /\ fs[r].pc = "mark"
  /\ apps' = UpdateAppStatus(apps, fs[r].app.id, "syncing", now)
  /\ fs' = [fs EXCEPT ![r].pc = "apply", ![r].ctxDone = SyncCtxDone(fs[r].gone)]
  /\ resp' = NoResp
  /\ UNCHANGED <<creds, minted, remote, rec, del, reg, pollers, retry, deleted, ctx, sup, lib>>

\* lastFlush.IsZero(): Update sets lastValue and lastFlush together, so no flush
\* has happened exactly when lastValue is still empty
LastFlushIsZero(f) == f.last = OutNone

\* syncProgressReporter.Update(value) called by the running Apply with a non-blank
\* value; the first call always persists, later calls persist when the flush
\* interval has elapsed (elapsed)
FsProgress(r, value, elapsed, now) ==
  /\ fs[r].pc = "apply"
  /\ LET shouldFlush == LastFlushIsZero(fs[r]) \/ elapsed IN
     /\ fs' = [fs EXCEPT ![r].last = value]
     /\ apps' = IF shouldFlush
                  THEN UpdateAppSyncProgress(apps, fs[r].app.id, now, value)
                  ELSE apps
  /\ resp' = NoResp
  /\ \/ fs' # fs
     \/ apps' # apps
  /\ UNCHANGED <<creds, minted, remote, rec, del, reg, pollers, retry, deleted, ctx, sup, lib>>

\* a Flush that has nothing to persist
FlushValueNone(f) == OutNone

\* syncProgressReporter.Flush: the value it persists is lastValue
FlushValue(f) == f.last

\* Applier.Apply returned (output, err); progress.Flush() persists lastValue
\* unless it is empty
FsFlush(r, ok, now) ==
  /\ fs[r].pc = "apply"
  /\ ok => ~fs[r].ctxDone
  /\ apps' = IF FlushValue(fs[r]) # OutNone
               THEN UpdateAppSyncProgress(apps, fs[r].app.id, now, FlushValue(fs[r]))
               ELSE apps
  /\ fs' = [fs EXCEPT ![r].pc = "result", ![r].ok = ok]
  /\ resp' = NoResp
  /\ UNCHANGED <<creds, minted, remote, rec, del, reg, pollers, retry, deleted, ctx, sup, lib>>

\* the terminal UpdateSyncResult and the response
FsResult(r, now) ==
  /\ fs[r].pc = "result"
  /\ LET app == fs[r].app IN
     apps' = IF fs[r].ok
               THEN UpdateAppSyncResult(apps, app.id, "synced", now,
                                        app.seen, app.seenMsg, OutOk, ErrNone)
               ELSE UpdateAppSyncResult(apps, app.id, "error", now,
                                        app.synced, app.syncedMsg, OutFail, ErrApply)
  /\ fs' = [fs EXCEPT ![r] = FsIdle]
  /\ resp' = Response("sync", IF fs[r].ok THEN 200 ELSE 500)
  /\ UNCHANGED <<creds, minted, remote, rec, del, reg, pollers, retry, deleted, ctx, sup, lib>>

(***************************************************************************)
(* DELETE /apps/{id} (Handler.DeleteApp, Registry.Delete).                 *)
(***************************************************************************)
\* destroy: what Cleaner.Destroy returned for the request ("none", "ok", "err")
\* gone: the client has disconnected (r.Context() is done); ctxDone: cleanupCtx is done
\* had: store.DeleteAppCredential of this request removed a row
DelIdle == [pc |-> "idle", id |-> "", destroy |-> "none", gone |-> FALSE, ctxDone |-> FALSE,
            had |-> FALSE]

\* a handler that only logs the error of Cleaner.Destroy
DelAfterDestroyIgnoreError(d, ok) ==
  [d EXCEPT !.pc = "delcred", !.destroy = IF ok THEN "ok" ELSE "err"]

\* the handler after Cleaner.Destroy returned: Registry.Delete follows only on success
DelAfterDestroy(d, ok) ==
  IF ok THEN [d EXCEPT !.pc = "delcred", !.destroy = "ok"]
        ELSE DelIdle

\* is cleanupCtx done when the request context is done (requestDone)? It is
\* context.WithTimeout(r.Context(), 2*time.Minute)
CleanupCtxDone(requestDone) == requestDone

\* Registry.Get: 404 for an unknown id
DelGet(id) ==
  /\ del.pc = "idle"
  /\ IF RowExists(apps, id)
       THEN del' = [DelIdle EXCEPT !.pc = "destroy", !.id = id] /\ resp' = NoResp
       ELSE del' = del /\ resp' = Response("delete", 404)
  /\ UNCHANGED <<apps, creds, minted, remote, rec, fs, reg, pollers, retry, deleted, ctx, sup, lib>>

\* Cleaner.Destroy under the request context; 500 when it fails
DelDestroy(ok) ==
  /\ del.pc = "destroy"
  /\ ok => ~del.ctxDone
  /\ del' = DelAfterDestroy(del, ok)
  /\ resp' = IF del'.pc = "idle" THEN Response("delete", 500) ELSE NoResp
  /\ UNCHANGED <<apps, creds, minted, remote, rec, fs, reg, pollers, retry, deleted, ctx, sup, lib>>

\* Registry.Delete, first statement: store.DeleteAppCredential
DelCred ==
  /\ del.pc = "delcred"
  /\ creds' = DeleteAppCredential(creds, del.id)
  /\ del' = [del EXCEPT !.pc = "delapp", !.had = del.id \in creds]
  /\ resp' = NoResp
  /\ UNCHANGED <<apps, minted, remote, rec, fs, reg, pollers, retry, deleted, ctx, sup, lib>>

\* Registry.Delete, second statement: store.DeleteApp (one transaction)
DelApp ==
  /\ del.pc = "delapp"
  /\ IF RowExists(apps, del.id)
       THEN /\ apps' = DeleteAppRows(apps, del.id)
            /\ creds' = DeleteAppCredential(creds, del.id)
            /\ resp' = Response("delete", 200)
            /\ deleted' = deleted \cup {del.id}
       ELSE /\ resp' = Response("delete", 404)
            /\ UNCHANGED <<apps, creds, deleted>>
  /\ del' = DelIdle
  /\ UNCHANGED <<minted, remote, rec, fs, reg, pollers, retry, ctx, sup, lib>>

(***************************************************************************)
(* POST /apps (Handler.RegisterApp, Registry.AddWithDeployKey).            *)
(***************************************************************************)
RegIdle == [pc |-> "idle", id |-> ""]

\* uuid.NewString(), validation passed, store.CreateApp
RegCreate(id, method) ==
  /\ reg.pc = "idle"
  /\ id \notin minted
  /\ minted' = minted \cup {id}
  /\ apps' = [apps EXCEPT ![id] = NewApp(method)]
  /\ IF method = MethodDeployKey
       THEN reg' = [pc |-> "cred", id |-> id] /\ resp' = NoResp
       ELSE reg' = reg /\ resp' = Response("register", 201)
  /\ UNCHANGED <<creds, remote, rec, fs, del, pollers, retry, deleted, ctx, sup, lib>>

\* credentials.Encrypt and store.UpsertAppCredential (ok: neither fails for a reason
\* of its own); when the credential row is not stored, the app row is rolled back
\* with store.DeleteApp
RegCred(ok) ==
  /\ reg.pc = "cred"
  /\ LET upserted == IF ok THEN UpsertAppCredential(apps, creds, reg.id) ELSE creds IN
     IF ok /\ reg.id \in upserted
       THEN /\ creds' = upserted
            /\ apps' = apps
            /\ resp' = Response("register", 201)
       ELSE /\ apps' = DeleteAppRows(apps, reg.id)
            /\ creds' = DeleteAppCredential(creds, reg.id)
            /\ resp' = Response("register", 409)
  /\ reg' = RegIdle
  /\ UNCHANGED <<minted, remote, rec, fs, del, pollers, retry, deleted, ctx, sup, lib>>

(***************************************************************************)
(* Git watcher (internal/controller/gitwatcher.go) and the repositories.   *)
(***************************************************************************)
\* state: "none" (no poller was started), "running" (an entry in the supervisor's map and
\* a live goroutine), "stopped" (cancelled, no entry in the map);
\* seen, method: LastSeenCommit and RepoAuthMethod of the *App the poller was started with
NoPoller == [state |-> "none", seen |-> NoCommit, method |-> MethodPublic]

\* a supervisor tick without its cleanup loop
SupPollersNoCleanup(s, p) ==
  [id \in AppIds |->
     IF RowExists(s, id) /\ p[id].state # "running"
       THEN [state |-> "running", seen |-> s[id].seen, method |-> s[id].method]
     ELSE p[id]]

\* the poller map after the two loops of a supervisor tick over Registry.List(): an app
\* without an entry gets a poller, the poller of an id that is not listed is cancelled
\* and its entry deleted
SupPollers(s, p) ==
  [id \in AppIds |->
     IF RowExists(s, id) /\ p[id].state # "running"
       THEN [state |-> "running", seen |-> s[id].seen, method |-> s[id].method]
     ELSE IF ~RowExists(s, id) /\ p[id].state = "running"
       THEN [p[id] EXCEPT !.state = "stopped"]
     ELSE p[id]]

\* one supervisor tick of GitWatcher.Start
SupTick ==
  /\ ctx = "live"
  /\ sup = "running"
  /\ pollers' = SupPollers(apps, pollers)
  /\ pollers' # pollers
  /\ resp' = NoResp
  /\ UNCHANGED <<apps, creds, minted, remote, rec, fs, del, reg, retry, deleted, ctx, sup, lib>>

\* authForApp: a deploy_key app needs a non-empty key
AuthOk(p, id) == p.method = MethodDeployKey => id \in creds

\* checkRepo found a tip that differs from app.LastSeenCommit and records it
PollTick(id) ==
  /\ ctx = "live"
  /\ pollers[id].state = "running"
  /\ AuthOk(pollers[id], id)
  /\ remote[id] # pollers[id].seen
  /\ apps' = UpdateAppCommit(apps, id, remote[id], CommitSubject(remote[id]))
  /\ pollers' = [pollers EXCEPT ![id].seen =
                    IF RowExists(apps, id) THEN remote[id] ELSE @]
  /\ RowExists(apps, id)
  /\ resp' = NoResp
  /\ UNCHANGED <<creds, minted, remote, rec, fs, del, reg, retry, deleted, ctx, sup, lib>>

\* a new commit is pushed to the tracked branch of a registered app's repository
EnvPush(id) ==
  /\ RowExists(apps, id)
  /\ remote[id] < MaxCommit
  /\ remote' = [remote EXCEPT ![id] = @ + 1]
  /\ resp' = NoResp
  /\ UNCHANGED <<apps, creds, minted, rec, fs, del, reg, pollers, retry, deleted, ctx, sup, lib>>

(***************************************************************************)
(* Specification.                                                          *)
(***************************************************************************)
\* no library function called yet
NoCall == [fn |-> "none"]

Init ==
  /\ lib = NoCall
  /\ apps = [id \in AppIds |-> NoRow]
  /\ creds = {}
  /\ minted = {}
  /\ remote = [id \in AppIds |-> 1]
  /\ rec = RecIdle
  /\ fs = [r \in Reqs |-> FsIdle]
  /\ del = DelIdle
  /\ reg = RegIdle
  /\ resp = NoResp
  /\ pollers = [id \in AppIds |-> NoPoller]
  /\ retry \in BOOLEAN
  /\ deleted = {}
  /\ ctx = "live"
  /\ sup = "running"

Reconciler ==
  \/ \E snap \in Snapshots : RecTick(snap)
  \/ RecRequeue
  \/ RecDispatch
  \/ \E ok \in BOOLEAN, now \in Times : RecApplyReturn(ok, now)

ForceSync ==
  \E r \in Reqs :
    \/ \E id \in AppIds : FsGet(r, id)
    \/ \E now \in Times : FsMark(r, now)
    \/ \E elapsed \in BOOLEAN, now \in Times : FsProgress(r, OutPartial, elapsed, now)
    \/ \E ok \in BOOLEAN, now \in Times : FsFlush(r, ok, now)
    \/ \E now \in Times : FsResult(r, now)

Delete ==
  \/ \E id \in AppIds : DelGet(id)
  \/ \E ok \in BOOLEAN : DelDestroy(ok)
  \/ DelCred
  \/ DelApp

Register ==
  \/ \E id \in AppIds, method \in Methods : RegCreate(id, method)
  \/ \E ok \in BOOLEAN : RegCred(ok)

Watcher ==
  \/ SupTick
  \/ \E id \in AppIds : PollTick(id)
  \/ \E id \in AppIds : EnvPush(id)

Next == Reconciler \/ ForceSync \/ Delete \/ Register \/ Watcher

Spec == Init /\ [][Next]_vars

(***************************************************************************)
(* Fair executions without operator requests: the tickers of the           *)
(* reconciler, of the watcher supervisor and of every poller keep firing,  *)
(* Apply returns (it runs under a timeout context) and returns nil.        *)
(***************************************************************************)
RecStepOk ==
  \/ \E snap \in Snapshots : RecTick(snap)
  \/ RecRequeue
  \/ RecDispatch
  \/ RecApplyReturn(TRUE, Now)

LiveNext == RecStepOk \/ Register \/ Watcher

LiveSpec ==
  /\ Init
  /\ [][LiveNext]_vars
  /\ WF_vars(RecStepOk)
  /\ WF_vars(SupTick)
  /\ \A id \in AppIds : WF_vars(PollTick(id))

(***************************************************************************)
(* Actors of a sync.                                                       *)
(***************************************************************************)
\* the reconciler is inside Executor.Apply for app a
RecApplying(a) == rec.pc = "apply" /\ RecCur.id = a
\* force-sync request r is inside Applier.Apply for app a
FsApplying(r, a) == fs[r].pc = "apply" /\ fs[r].app.id = a
\* force-sync request r is between its UpdateStatus(syncing) and its terminal write
FsSyncing(r, a) == fs[r].pc \in {"apply", "result"} /\ fs[r].app.id = a

\* number of Apply calls in flight for app a
ApplyCount(a) ==
  (IF RecApplying(a) THEN 1 ELSE 0) + Cardinality({r \in Reqs : FsApplying(r, a)})

\* number of actors that marked app a syncing and have not yet written a terminal result
SyncActorCount(a) ==
  (IF RecApplying(a) THEN 1 ELSE 0) + Cardinality({r \in Reqs : FsSyncing(r, a)})

(***************************************************************************)
(* Properties.                                                             *)
(***************************************************************************)

\* C1: mutual exclusion of Apply: in every reachable state at most one Apply
\* (reconciler syncApp or force-sync) is in flight for each app.
C1_AtMostOneApply == \A a \in AppIds : ApplyCount(a) <= 1

\* C2: an app whose stored status is syncing has exactly one actor executing its
\* sync (the reconciler or one force-sync call) in every reachable state.
C2_SyncingHasOneActor ==
  \A a \in AppIds :
    (RowExists(apps, a) /\ apps[a].status = "syncing") => SyncActorCount(a) = 1

\* C3: convergence: once the watcher has recorded the last commit pushed to the branch,
\* under fair ticks and with every Apply succeeding the app eventually is synced
\* with last_synced_commit = last_seen_commit = that commit (or its row was rolled back).
C3_Recorded(a) ==
  RowExists(apps, a) /\ remote[a] = MaxCommit /\ apps[a].seen = MaxCommit
C3_Converged(a) ==
  apps[a].status = "synced" /\ apps[a].synced = MaxCommit /\ apps[a].seen = MaxCommit
C3_Convergence ==
  \A a \in AppIds : C3_Recorded(a) ~> (~RowExists(apps, a) \/ C3_Converged(a))

\* the step is the terminal write of a sync of app a returning from a successful
\* (ok) or failed (~ok) Apply, by the reconciler or by force-sync request r
RecTerminal(a) == RecApplying(a) /\ rec' # rec
FsTerminal(r, a) == fs[r].pc = "result" /\ fs[r].app.id = a /\ fs'[r].pc = "idle"

\* C4: the terminal write after a successful Apply(commit = C) leaves status = synced,
\* last_synced_commit = C (the commit argument passed to that Apply), last_sync_error = "".
C4_SuccessWrite(a, commit) ==
  /\ apps'[a].status = "synced"
  /\ apps'[a].synced = commit
  /\ apps'[a].err = ErrNone
C4_SyncedCommitIsApplyArgument ==
  [][\A a \in AppIds : RowExists(apps, a) =>
       /\ (RecTerminal(a) /\ apps'[a].status # "error")
             => C4_SuccessWrite(a, RecApplyCommit(RecCur))
       /\ \A r \in Reqs : (FsTerminal(r, a) /\ fs[r].ok)
             => C4_SuccessWrite(a, FsApplyCommit(fs[r].app))]_vars

\* C5: the terminal write after a failed Apply leaves last_synced_commit and its
\* message as they were in the store just before the write, sets status = error and
\* a non-empty last_sync_error.
C5_ErrorWrite(a) ==
  /\ apps'[a].status = "error"
  /\ apps'[a].err # ErrNone
  /\ apps'[a].synced = apps[a].synced
  /\ apps'[a].syncedMsg = apps[a].syncedMsg
C5_ErrorKeepsSyncedCommit ==
  [][\A a \in AppIds : RowExists(apps, a) =>
       /\ (RecTerminal(a) /\ apps'[a].status # "synced") => C5_ErrorWrite(a)
       /\ \A r \in Reqs : (FsTerminal(r, a) /\ ~fs[r].ok) => C5_ErrorWrite(a)]_vars

\* C6: a step that changes last_seen_commit of an existing app (UpdateAppCommit) sets
\* last_seen_commit_message and status = pending in the same step and leaves
\* last_synced_commit, its message, last_sync_output, last_sync_error, last_sync_at alone.
C6_CommitWriteAtomic ==
  [][\A a \in AppIds :
       (RowExists(apps, a) /\ RowExists(apps', a) /\ apps'[a].seen # apps[a].seen) =>
         /\ apps'[a].status = "pending"
         /\ apps'[a].seenMsg = CommitSubject(apps'[a].seen)
         /\ apps'[a].synced = apps[a].synced
         /\ apps'[a].syncedMsg = apps[a].syncedMsg
         /\ apps'[a].out = apps[a].out
         /\ apps'[a].err = apps[a].err
         /\ apps'[a].at = apps[a].at]_vars
\* a commit was recorded for an app that had been synced before
C6_Witness ==
  \E a \in AppIds :
    /\ RowExists(apps, a)
    /\ apps[a].status = "pending"
    /\ apps[a].seen = 2 /\ apps[a].synced = 1
    /\ apps[a].out = OutOk /\ apps[a].at = Now
    /\ pollers[a].seen = 2

\* C7: a force-sync request that reads status = syncing is answered 409 without any
\* store write and without starting an Apply; 409 is answered only then, so a request
\* that reads synced or error is accepted.
C7_ForceSyncConflict ==
  [][/\ \A r \in Reqs :
          (fs[r].pc = "idle" /\ fs'[r].pc # "idle") =>
             /\ apps[fs'[r].app.id].status # "syncing"
             /\ apps' = apps /\ creds' = creds
     /\ (resp' = Response("sync", 409) /\ resp' # resp) =>
          /\ \E a \in AppIds : RowExists(apps, a) /\ apps[a].status = "syncing"
          /\ apps' = apps /\ creds' = creds /\ fs' = fs /\ rec' = rec]_vars
\* a request was answered 409 while the reconciler's Apply is in flight
C7_Witness ==
  /\ resp = Response("sync", 409)
  /\ \E a \in AppIds : apps[a].status = "syncing" /\ RecApplying(a)

\* C8: DELETE invokes Destroy only for an existing app and before removing any row;
\* a failed Destroy gives 500 and leaves app and credential rows unchanged; rows are
\* removed only after Destroy returned success; an unknown id gives 404 without Destroy.
C8_DestroyBeforeDelete ==
  [][/\ (del.pc = "idle" /\ del'.pc # "idle") =>
          /\ del'.pc = "destroy" /\ RowExists(apps, del'.id)
          /\ apps' = apps /\ creds' = creds
     /\ (del.pc = "idle" /\ resp' = Response("delete", 404) /\ resp' # resp) =>
          /\ \E a \in AppIds : ~RowExists(apps, a)
          /\ del' = del /\ apps' = apps /\ creds' = creds
     /\ (del.pc = "destroy" /\ del' # del) =>
          /\ apps' = apps /\ creds' = creds
          /\ \/ del'.pc = "delcred" /\ del'.destroy = "ok"
             \/ del'.pc = "idle" /\ resp' = Response("delete", 500)
     /\ (del' # del /\ (apps' # apps \/ creds' # creds)) => del.destroy = "ok"]_vars
\* Destroy failed for an existing app: 500 was answered and the rows are still there
C8_Witness ==
  /\ resp = Response("delete", 500)
  /\ \E a \in AppIds : RowExists(apps, a) /\ a \in creds

\* C9: once DELETE /apps/{id} has returned 200, the app row and the credential row
\* of id are absent in every later state.
C9_DeletedStaysDeleted ==
  \A a \in deleted : ~RowExists(apps, a) /\ a \notin creds
\* a force-sync of a deleted app has returned from Apply and written its terminal result
C9_Witness ==
  \E a \in deleted : resp = Response("sync", 200) /\ ~RowExists(apps, a)

RecSeesDrift ==
  /\ rec.snap # NilSnap
  /\ runtimeDriftReason(RecCur.id, rec.snap) # ""

\* one reconciler step of the self-healing path; needSeen: the statement is restricted
\* to copies with a non-empty last_seen_commit
C11_Step(needSeen) ==
  /\ (/\ rec.pc = "iter" /\ rec' # rec
      /\ RecCur.status = "synced" /\ RecSeesDrift
      /\ needSeen => RecCur.seen # NoCommit
      /\ RowExists(apps, RecCur.id))
       => /\ apps'[RecCur.id].status = "pending"
          /\ rec'.pc = "dispatch" /\ rec'.idx = rec.idx
          /\ rec'.list[rec.idx].status = "pending"
  /\ (/\ rec.pc = "dispatch" /\ rec' # rec
      /\ RecCur.status = "pending" /\ RecCur.seen # NoCommit
      /\ RowExists(apps, RecCur.id))
       => /\ rec'.pc = "apply" /\ rec'.idx = rec.idx
          /\ apps'[RecCur.id].status = "syncing"
          /\ RecApplyCommit(RecCur) = RecCur.seen
  /\ (/\ rec.pc = "apply" /\ rec' # rec
      /\ RowExists(apps, RecCur.id)
      /\ apps'[RecCur.id].out = OutOk)
       => apps'[RecCur.id].status = "synced"
  /\ (/\ rec.pc = "iter" /\ rec' # rec
      /\ RecCur.status = "synced" /\ rec.snap = NilSnap)
       => /\ apps' = apps
          /\ rec'.pc \notin {"dispatch", "apply"}

RecSeesQuiescent ==
  /\ rec.pc = "iter"
  /\ RecCur.seen = RecCur.synced
  /\ rec.snap # NilSnap
  /\ IsHealthy(rec.snap[RecCur.id])

\* the reconciler step for the app in hand writes nothing and starts no Apply
C12_Step(needStatus) ==
  (/\ RecSeesQuiescent /\ rec' # rec
   /\ needStatus => \/ RecCur.status = "synced"
                    \/ RecCur.status = "error" /\ ~retry)
    => /\ apps' = apps /\ creds' = creds
       /\ rec' = RecAdvance(rec)

\* C12 (as stated): a tick that reads last_seen_commit = last_synced_commit and a
\* healthy snapshot performs no store write and no Apply for the app, whatever its status.
C12_QuiescentAnyStatus == [][C12_Step(FALSE)]_vars

\* C12 (amended): the same when the status read is synced, or error with RetryErrors false.
C12_Quiescent == [][C12_Step(TRUE)]_vars
\* a tick is looking at a synced, fully applied app with a healthy project
C12_Witness ==
  /\ RecSeesQuiescent
  /\ RecCur.status = "synced" /\ RecCur.seen = MaxCommit
  /\ apps[RecCur.id].status = "synced"

\* C13: in every reachable state the last_sync_error of an app is empty whenever its
\* status is not error.
C13_ErrorOnlyInErrorStatus ==
  \A a \in AppIds :
    (RowExists(apps, a) /\ apps[a].status # "error") => apps[a].err = ErrNone

\* the transitions of the documented status machine; the re-evaluation of an error app
\* is read generously as error -> pending or error -> syncing
C14_Transitions ==
  { <<"pending", "syncing">>, <<"syncing", "synced">>, <<"syncing", "error">>,
    <<"synced", "pending">>, <<"error", "pending">>, <<"error", "syncing">> }

\* C14: every status change of an app is a transition of the status machine, a new
\* row starts in pending, and the status is one of pending, syncing, synced, error.
C14_StatusMachine ==
  [][\A a \in AppIds :
       /\ (~RowExists(apps, a) /\ RowExists(apps', a)) => apps'[a].status = "pending"
       /\ RowExists(apps', a) => apps'[a].status \in {"pending", "syncing", "synced", "error"}
       /\ (RowExists(apps, a) /\ RowExists(apps', a) /\ apps'[a].status # apps[a].status)
            => <<apps[a].status, apps'[a].status>> \in C14_Transitions]_vars

(***************************************************************************)
(* POST /apps in isolation: Handler.RegisterApp and                        *)
(* Registry.AddWithDeployKey with their validation, one request at a time, *)
(* over a store of two ids. Variables apps, creds, minted, reg and resp    *)
(* are used; the other actors do not run.                                  *)
(***************************************************************************)
RegIds == {"a1", "a2"}

\* repository URLs by the features the validation looks at: strings.Contains "://",
\* the scheme, "@" and ":" after the user part, and the host
RepoUrl(blank, scheme, user, colon, host) ==
  [blank |-> blank, scheme |-> scheme, user |-> user, colon |-> colon, host |-> host]
UrlBlank == RepoUrl(TRUE, "", FALSE, FALSE, "")
UrlHttps == RepoUrl(FALSE, "https", FALSE, TRUE, "github.com")
UrlSshScheme == RepoUrl(FALSE, "ssh", TRUE, TRUE, "github.com")
UrlScp == RepoUrl(FALSE, "", TRUE, TRUE, "github.com")
UrlScpOtherHost == RepoUrl(FALSE, "", TRUE, TRUE, "gitlab.com")
UrlNoUser == RepoUrl(FALSE, "", FALSE, FALSE, "github.com")
RepoUrls == {UrlBlank, UrlHttps, UrlSshScheme, UrlScp, UrlScpOtherHost, UrlNoUser}

\* repo_auth_method values as sent, after TrimSpace and ToLower
MethodSpellings == {"", "public", "deploy_key", "deploy-key", "deploykey", "token"}

\* deploy keys after NormalizeDeployKey: none, an unencrypted private key, a
\* passphrase-protected private key, and text that is no private key
KeyNone == ""
KeyPlain == "private_key"
KeyPassphrase == "private_key_with_passphrase"
KeyGarbage == "not_a_key"
DeployKeys == {KeyNone, KeyPlain, KeyPassphrase, KeyGarbage}

\* error messages as the sequence of their lower-cased words; none of the three words
\* the handler searches for occurs inside a longer word of these messages other than
\* as listed ("requires", "supports", "supported" do not contain them)
NoErr == <<>>
MsgUrlRequired == <<"repo", "url", "is", "required">>
MsgUnsupportedMethod == <<"unsupported", "repo", "auth", "method">>
MsgKeyRequired == <<"deploy", "key", "is", "required", "for", "private", "repositories">>
MsgInvalidUrl == <<"invalid", "repo", "url">>
MsgInvalidSshUrl == <<"invalid", "ssh", "repo", "url">>
MsgInvalidHost == <<"invalid", "repo", "url", "host">>
MsgOnlyGithub == <<"deploy", "key", "mode", "currently", "supports", "only", "github.com">>
MsgNeedsSshUrl == <<"deploy", "key", "mode", "requires", "an", "ssh", "repo", "url">>
MsgPassphrase == <<"passphrase-protected", "deploy", "keys", "are", "not", "supported">>
MsgInvalidKey == <<"invalid", "deploy", "key">>
MsgUnavailable ==
  <<"deploy", "key", "support", "is", "unavailable:", "set", "conops_encryption_key">>
MsgDuplicate == <<"unique", "constraint", "failed:", "apps.id">>
MsgNonce == <<"failed", "generating", "nonce">>
MsgStore == <<"database", "is", "locked">>

\* strings.Contains(errText, word)
Contains(msg, word) == \E i \in 1..Len(msg) : msg[i] = word

NormalizeMethod(value) ==
  CASE value \in {"", "public"} -> MethodPublic
    [] value \in {"deploy_key", "deploy-key", "deploykey"} -> MethodDeployKey
    [] OTHER -> ""

isSSHRepoURL(u) == u.scheme = "ssh" \/ (u.user /\ u.colon)

\* hostFromRepoURL: [err, host]
hostFromRepoURL(u) ==
  IF u.blank THEN [err |-> MsgUrlRequired, host |-> ""]
  ELSE IF u.scheme # ""
    THEN IF u.host = "" THEN [err |-> MsgInvalidHost, host |-> ""]
                        ELSE [err |-> NoErr, host |-> u.host]
  ELSE IF ~u.user THEN [err |-> MsgInvalidUrl, host |-> ""]
  ELSE IF ~u.colon THEN [err |-> MsgInvalidSshUrl, host |-> ""]
  ELSE [err |-> NoErr, host |-> u.host]

\* ssh.ParseRawPrivateKey
ParseRawPrivateKey(key) ==
  CASE key = KeyPlain -> NoErr
    [] key = KeyPassphrase -> MsgPassphrase
    [] OTHER -> MsgInvalidKey

ValidateCreateInput(u, method, key) ==
  IF u.blank THEN MsgUrlRequired
  ELSE IF NormalizeMethod(method) = "" THEN MsgUnsupportedMethod
  ELSE IF NormalizeMethod(method) # MethodDeployKey THEN NoErr
  ELSE IF key = KeyNone THEN MsgKeyRequired
  ELSE IF hostFromRepoURL(u).err # NoErr THEN hostFromRepoURL(u).err
  ELSE IF hostFromRepoURL(u).host # "github.com" THEN MsgOnlyGithub
  ELSE IF ~isSSHRepoURL(u) THEN MsgNeedsSshUrl
  ELSE ParseRawPrivateKey(key)

\* the method AddWithDeployKey stores in app.RepoAuthMethod before validating
EffectiveMethod(method, key) ==
  IF NormalizeMethod(method) # "" THEN NormalizeMethod(method)
  ELSE IF key # KeyNone THEN MethodDeployKey
  ELSE MethodPublic

\* RegisterApp: the HTTP status for an error of AddWithDeployKey
RegisterErrorStatus(err) ==
  IF Contains(err, "required") \/ Contains(err, "invalid") \/ Contains(err, "unsupported")
    THEN 400
    ELSE 409

\* the request body fields the handler and the registry look at
RegisterInputs ==
  [name : {"", "web"}, url : RepoUrls, method : MethodSpellings, key : DeployKeys]
NoInput == [name |-> "", url |-> UrlBlank, method |-> "", key |-> KeyNone]
MsgNameUrlRequired == <<"app", "name", "and", "repo", "url", "are", "required">>

\* no request in hand; enabled: r.credentials.Enabled()
\* cause: the return statement an error comes from ("none": no error)
\* pre: the store when the request arrived
AddIdle(enabled) ==
  [pc |-> "idle", enabled |-> enabled, in |-> NoInput, id |-> "", method |-> "",
   cause |-> "none", err |-> NoErr, pre |-> [apps |-> <<>>, creds |-> {}]]

\* a registry that leaves the app row in place when the credential cannot be stored
AddRollbackSkipped(s, id) == s

\* _ = r.store.DeleteApp(app.ID) after a failed Encrypt or UpsertAppCredential
AddRollback(s, id) == DeleteAppRows(s, id)

\* RegisterApp up to and including store.CreateApp; given: the caller set app.ID,
\* otherwise id is the value of uuid.NewString()
AddWithDeployKey(in, id, given) ==
  /\ reg.pc = "idle"
  /\ ~given => id \notin minted
  /\ LET method == EffectiveMethod(in.method, in.key)
         verr == ValidateCreateInput(in.url, method, in.key)
         call == [reg EXCEPT !.in = in, !.id = id, !.method = method, !.pc = "return",
                             !.pre = [apps |-> apps, creds |-> creds]]
         fail(cause, err) == /\ reg' = [call EXCEPT !.cause = cause, !.err = err]
                             /\ apps' = apps
     IN
     IF in.name = "" \/ in.url.blank THEN fail("handler", MsgNameUrlRequired)
     ELSE IF verr # NoErr THEN fail("validation", verr)
     ELSE IF method = MethodDeployKey /\ ~reg.enabled THEN fail("unavailable", MsgUnavailable)
     ELSE IF RowExists(apps, id) THEN fail("duplicate", MsgDuplicate)
     ELSE /\ apps' = [apps EXCEPT ![id] = NewApp(method)]
          /\ reg' = [call EXCEPT !.pc = IF method = MethodDeployKey THEN "cred" ELSE "return"]
  /\ minted' = minted \cup {id}
  /\ resp' = NoResp
  /\ UNCHANGED <<creds, remote, rec, fs, del, pollers, retry, deleted, ctx, sup, lib>>

\* credentials.Encrypt and store.UpsertAppCredential, each of which may fail
\* (encOk, upsertOk), with the rollback of the app row
AddCredential(encOk, upsertOk) ==
  /\ reg.pc = "cred"
  /\ IF ~encOk
       THEN /\ apps' = AddRollback(apps, reg.id)
            /\ creds' = IF RowExists(apps', reg.id) THEN creds
                                                     ELSE DeleteAppCredential(creds, reg.id)
            /\ reg' = [reg EXCEPT !.pc = "return", !.cause = "encrypt", !.err = MsgNonce]
     ELSE IF ~upsertOk
       THEN /\ apps' = AddRollback(apps, reg.id)
            /\ creds' = IF RowExists(apps', reg.id) THEN creds
                                                     ELSE DeleteAppCredential(creds, reg.id)
            /\ reg' = [reg EXCEPT !.pc = "return", !.cause = "upsert", !.err = MsgStore]
     ELSE /\ apps' = apps
          /\ creds' = UpsertAppCredential(apps, creds, reg.id)
          /\ reg' = [reg EXCEPT !.pc = "return"]
  /\ resp' = NoResp
  /\ UNCHANGED <<minted, remote, rec, fs, del, pollers, retry, deleted, ctx, sup, lib>>

\* RegisterApp writes the response
RegisterAppRespond ==
  /\ reg.pc = "return"
  /\ resp' = Response("register",
                      IF reg.cause = "none" THEN 201
                      ELSE IF reg.cause = "handler" THEN 400
                      ELSE RegisterErrorStatus(reg.err))
  /\ reg' = AddIdle(reg.enabled)
  /\ UNCHANGED <<apps, creds, minted, remote, rec, fs, del, pollers, retry, deleted, ctx, sup, lib>>

RegisterInit ==
  /\ lib = NoCall
  /\ apps = [id \in RegIds |-> NoRow]
  /\ creds = {}
  /\ minted = {}
  \* main exits when credentials.NewServiceFromEnv fails: the service is enabled
  /\ reg = AddIdle(TRUE)
  /\ resp = NoResp
  /\ remote = [id \in RegIds |-> 1]
  /\ rec = RecIdle
  /\ fs = [r \in Reqs |-> FsIdle]
  /\ del = DelIdle
  /\ pollers = [id \in RegIds |-> NoPoller]
  /\ retry = FALSE
  /\ deleted = {}
  /\ ctx = "live"
  /\ sup = "running"

RegisterNext ==
  \/ \E in \in RegisterInputs, id \in RegIds, given \in BOOLEAN : AddWithDeployKey(in, id, given)
  \/ \E encOk \in BOOLEAN, upsertOk \in BOOLEAN : AddCredential(encOk, upsertOk)
  \/ RegisterAppRespond

RegisterSpec == RegisterInit /\ [][RegisterNext]_vars

\* RegisterApp is about to answer a request that failed for the given cause
RegisterFailed(cause) == reg.pc = "return" /\ reg.cause = cause
\* the store is as it was when the request in hand arrived
RegisterStoreUntouched == apps = reg.pre.apps /\ creds = reg.pre.creds

\* C15: POST /apps answers 400 to every failure caused by input validation or by
\* encryption being unavailable for a deploy_key app, and answers 409 only to a
\* duplicate-id conflict.
C15_ValidationIs400 ==
  [][(reg.pc = "return" /\ reg'.pc = "idle") =>
       /\ reg.cause \in {"handler", "validation", "unavailable"} => resp'.code = 400
       /\ resp'.code = 409 => reg.cause = "duplicate"]_vars

\* C16: a request whose repo_auth_method is no recognised spelling fails with a
\* validation error, with or without a deploy key, and every validation failure
\* leaves the store unchanged.
C16_UnknownMethodRejected ==
  reg.pc = "return" =>
    /\ NormalizeMethod(reg.in.method) = "" =>
         reg.cause \in {"handler", "validation"} /\ RegisterStoreUntouched
    /\ reg.cause \in {"handler", "validation"} => RegisterStoreUntouched

C18_CredentialCoupled ==
  \A a \in AppIds :
    /\ a \in creds => RowExists(apps, a) /\ apps[a].method = MethodDeployKey
    /\ (RowExists(apps, a) /\ apps[a].method = MethodDeployKey) => a \in creds

(***************************************************************************)
(* Shutdown: the root context passed to GitWatcher.Start and               *)
(* Reconciler.Run is cancelled. A loop blocked in its select takes the     *)
(* ctx.Done() case and returns; a loop that is inside a tick finishes the  *)
(* tick first.                                                             *)
(***************************************************************************)
Shutdown ==
  /\ ctx = "live"
  /\ ctx' = "cancelled"
  /\ resp' = NoResp
  /\ UNCHANGED <<apps, creds, minted, remote, rec, fs, del, reg, pollers, retry, deleted, sup, lib>>

\* Reconciler.Run returns from its select
RecStop ==
  /\ ctx = "cancelled"
  /\ rec.pc = "idle"
  /\ rec' = [RecIdle EXCEPT !.pc = "stopped"]
  /\ resp' = NoResp
  /\ UNCHANGED <<apps, creds, minted, remote, fs, del, reg, pollers, retry, deleted, ctx, sup, lib>>

\* GitWatcher.Start returns from its select
SupStop ==
  /\ ctx = "cancelled"
  /\ sup = "running"
  /\ sup' = "stopped"
  /\ resp' = NoResp
  /\ UNCHANGED <<apps, creds, minted, remote, rec, fs, del, reg, pollers, retry, deleted, ctx, lib>>

\* a poller context derived from context.Background()
PollCtxDetached(root) == FALSE

\* is the context of a poller done when the supervisor context is in state root? It is
\* context.WithCancel(ctx): done when the supervisor context is
PollCtxDone(root) == root = "cancelled"

\* pollApp returns from its select
PollStop(id) ==
  /\ PollCtxDone(ctx)
  /\ pollers[id].state = "running"
  /\ pollers' = [pollers EXCEPT ![id].state = "stopped"]
  /\ resp' = NoResp
  /\ UNCHANGED <<apps, creds, minted, remote, rec, fs, del, reg, retry, deleted, ctx, sup, lib>>

ShutdownNext ==
  \/ Reconciler
  \/ Register
  \/ Watcher
  \/ Shutdown
  \/ RecStop
  \/ SupStop
  \/ \E id \in AppIds : PollStop(id)

ShutdownSpec == Init /\ [][ShutdownNext]_vars

\* C19: after the root context is cancelled, an Apply of the reconciler that is in
\* flight ends as a failure: the terminal write is status = error with the transcript
\* returned by the interrupted Apply; the reconciler loop and the watcher supervisor,
\* once stopped, take no further step.
C19_ShutdownCancelsApply ==
  [][/\ (ctx = "cancelled" /\ rec.pc = "apply" /\ rec' # rec /\ RowExists(apps, RecCur.id))
          => /\ apps'[RecCur.id].status = "error"
             /\ apps'[RecCur.id].out = OutFail
     /\ rec.pc = "stopped" => rec' = rec
     /\ sup = "stopped" => sup' = sup]_vars

(***************************************************************************)
(* Client disconnects: the context of an HTTP request in flight becomes    *)
(* done; the handler goroutine keeps running.                              *)
(***************************************************************************)
FsDisconnect(r) ==
  /\ fs[r].pc # "idle"
  /\ ~fs[r].gone
  /\ fs' = [fs EXCEPT ![r].gone = TRUE,
                      ![r].ctxDone = IF fs[r].pc = "apply" THEN SyncCtxDone(TRUE) ELSE @]
  /\ resp' = NoResp
  /\ UNCHANGED <<apps, creds, minted, remote, rec, del, reg, pollers, retry, deleted, ctx, sup, lib>>

DelDisconnect ==
  /\ del.pc # "idle"
  /\ ~del.gone
  /\ del' = [del EXCEPT !.gone = TRUE,
                        !.ctxDone = IF del.pc = "destroy" THEN CleanupCtxDone(TRUE) ELSE @]
  /\ resp' = NoResp
  /\ UNCHANGED <<apps, creds, minted, remote, rec, fs, reg, pollers, retry, deleted, ctx, sup, lib>>

RequestNext ==
  \/ Register
  \/ Watcher
  \/ ForceSync
  \/ Delete
  \/ \E r \in Reqs : FsDisconnect(r)
  \/ DelDisconnect

RequestSpec == Init /\ [][RequestNext]_vars

\* C20: a client disconnect never cancels the context of a force-sync's Apply, the
\* handler stays with the Apply until it returns and then performs its one terminal
\* UpdateSyncResult (synced or error); the teardown of DELETE is bound to the request:
\* a disconnect during Destroy makes it fail, with 500 and no row removed.
C20_ForceSyncOutlivesRequest ==
  [][/\ \A r \in Reqs :
          /\ ~fs'[r].ctxDone
          /\ (fs[r].pc = "apply" /\ fs'[r] # fs[r]) => fs'[r].pc \in {"apply", "result"}
          /\ (fs[r].pc = "result" /\ fs'[r].pc # "result") =>
                /\ fs'[r].pc = "idle"
                /\ RowExists(apps, fs[r].app.id) =>
                     /\ apps'[fs[r].app.id].status = IF fs[r].ok THEN "synced" ELSE "error"
                     /\ apps'[fs[r].app.id].out = IF fs[r].ok THEN OutOk ELSE OutFail
     /\ (del'.pc = "destroy" /\ del'.gone) => del'.ctxDone
     /\ (del.pc = "destroy" /\ del.gone /\ del'.pc # "destroy") =>
          /\ del'.pc = "idle" /\ resp' = Response("delete", 500)
          /\ apps' = apps /\ creds' = creds]_vars
\* the client of a force-sync went away during the Apply, which then succeeded
C20_Witness ==
  \E r \in Reqs :
    /\ fs[r].pc = "result" /\ fs[r].gone /\ fs[r].ok
    /\ RowExists(apps, fs[r].app.id)

(***************************************************************************)
(* Library functions.  A string is a sequence of runes; each rune below    *)
(* stands for its class of characters.                                     *)
(***************************************************************************)
\* longest run of one rune in the strings handed to a library function
MaxRun == 64
\* longest tail of free runes after the run
MaxTail == 2

\* upper/lower-case ASCII letter, digit, '-', '_', other punctuation, space,
\* upper/lower-case non-ASCII letter (two bytes in UTF-8)
IdRunes == {"A", "a", "0", "-", "_", ".", " ", "É", "é"}
\* a byte that is no valid UTF-8: half of a two-byte rune cut by a byte slice
BrokenByte == "?"

RECURSIVE Repeat(_, _)
Repeat(r, n) == IF n = 0 THEN <<>> ELSE <<r>> \o Repeat(r, n - 1)

RECURSIVE SeqsUpTo(_, _)
SeqsUpTo(S, n) ==
  IF n = 0 THEN {<<>>}
  ELSE LET shorter == SeqsUpTo(S, n - 1)
       IN shorter \cup {Append(s, x) : s \in {t \in shorter : Len(t) = n - 1}, x \in S}

\* len(s): the number of bytes
RECURSIVE ByteLen(_)
ByteLen(s) ==
  IF s = <<>> THEN 0
  ELSE (IF Head(s) \in {"É", "é"} THEN 2 ELSE 1) + ByteLen(Tail(s))

\* s[:n]: the first n bytes; a rune that straddles the cut leaves a broken byte
RECURSIVE ByteSlice(_, _)
ByteSlice(s, n) ==
  IF s = <<>> \/ n = 0 THEN <<>>
  ELSE IF ByteLen(<<Head(s)>>) > n THEN <<BrokenByte>>
  ELSE <<Head(s)>> \o ByteSlice(Tail(s), n - ByteLen(<<Head(s)>>))

\* strings.ToLower
ToLower(s) ==
  [i \in 1..Len(s) |-> CASE s[i] = "A" -> "a" [] s[i] = "É" -> "é" [] OTHER -> s[i]]

\* strings.Trim(s, cutset); strings.TrimSpace is Trim with the white space as cutset
RECURSIVE TrimLeft(_, _)
TrimLeft(s, cutset) ==
  IF s # <<>> /\ Head(s) \in cutset THEN TrimLeft(Tail(s), cutset) ELSE s
RECURSIVE TrimRight(_, _)
TrimRight(s, cutset) ==
  IF s # <<>> /\ s[Len(s)] \in cutset THEN TrimRight(SubSeq(s, 1, Len(s) - 1), cutset) ELSE s
Trim(s, cutset) == TrimRight(TrimLeft(s, cutset), cutset)

\* the digits of a UUID as uuid.NewString() writes them: single characters, not
\* classes ("0", "1" of the decimal digits, "a", "f" of the letters)
HexRunes == {"0", "1", "a", "f"}

\* a test that accepts digits only
IsDigitOnly(r) == r \in {"0", "1"}

\* unicode.IsLetter(r) || unicode.IsDigit(r)
IsLetterOrDigit(r) == r \in {"A", "a", "0", "É", "é"} \cup HexRunes

startsWithAlphaNum(value) == value # <<>> /\ IsLetterOrDigit(Head(value))

\* "conops-app" and "app-"
FallbackName == <<"a", "a", "a", "a", "a", "a", "-", "a", "a", "a">>
AppPrefix == <<"a", "a", "a", "-">>
ProjectNameLimit == 63

\* the loop of composeProjectName over the runes of raw
RECURSIVE ReplaceRunes(_, _)
ReplaceRunes(raw, lastDash) ==
  IF raw = <<>> THEN <<>>
  ELSE IF IsLetterOrDigit(Head(raw)) \/ Head(raw) \in {"-", "_"}
       THEN <<Head(raw)>> \o ReplaceRunes(Tail(raw), FALSE)
       ELSE (IF lastDash THEN <<>> ELSE <<"-">>) \o ReplaceRunes(Tail(raw), TRUE)

composeProjectName(appID) ==
  LET raw == ToLower(Trim(appID, {" "}))
      trimmed == Trim(ReplaceRunes(raw, FALSE), {"-", "_"})
      named == IF trimmed = <<>> THEN FallbackName ELSE trimmed
      project == IF startsWithAlphaNum(named) THEN named ELSE AppPrefix \o named
      cut == IF ByteLen(project) > ProjectNameLimit
             THEN Trim(ByteSlice(project, ProjectNameLimit), {"-", "_"})
             ELSE project
  IN IF raw = <<>> THEN FallbackName
     ELSE IF cut = <<>> THEN FallbackName ELSE cut

\* app ids: a head of free runes, a run of one rune, a tail of free runes
ProjectIds ==
  {h \o Repeat(r, n) \o t :
     h \in SeqsUpTo(IdRunes, 1), r \in {"a", "-", "é"},
     n \in {0} \cup ((ProjectNameLimit - 3)..MaxRun), t \in SeqsUpTo(IdRunes, MaxTail)}

\* ProjectNameForApp(appID) in a fresh process, called twice as Apply and Destroy do
ProjectNameForApp(appID) ==
  /\ lib = NoCall
  /\ lib' = [fn |-> "composeProjectName", in |-> appID,
             out |-> composeProjectName(appID), again |-> composeProjectName(appID)]
  /\ UNCHANGED <<apps, creds, minted, remote, rec, fs, del, reg, pollers, retry, resp,
                 deleted, ctx, sup>>

ProjectNameNext == \E appID \in ProjectIds : ProjectNameForApp(appID)

ProjectNameSpec == Init /\ [][ProjectNameNext]_vars

\* C21: every project name is at most 63 bytes long, begins with a character of
\* [a-z0-9], holds only characters of [a-z0-9-_], and two calls with the same id
\* return the same name.
C21_ProjectNameWellFormed ==
  lib.fn = "composeProjectName" =>
    /\ ByteLen(lib.out) <= ProjectNameLimit
    /\ lib.out # <<>> /\ Head(lib.out) \in {"a", "0"}
    /\ \A i \in 1..Len(lib.out) : lib.out[i] \in {"a", "0", "-", "_"}
    /\ lib.again = lib.out

(***************************************************************************)
(* repoauth.NormalizeDeployKey.                                            *)
(***************************************************************************)
\* longest deploy key text handed to NormalizeDeployKey
MaxKeyLen == 5

\* carriage return, line feed, space, backslash, the letter n, any other character
KeyRunes == {"CR", "LF", " ", "\\", "n", "k"}
WhiteSpace == {"CR", "LF", " "}

\* strings.Contains
RECURSIVE ContainsSub(_, _)
ContainsSub(s, sub) ==
  /\ Len(s) >= Len(sub)
  /\ \/ SubSeq(s, 1, Len(sub)) = sub
     \/ ContainsSub(Tail(s), sub)

\* strings.ReplaceAll for a non-empty old
RECURSIVE ReplaceAll(_, _, _)
ReplaceAll(s, old, new) ==
  IF Len(s) < Len(old) THEN s
  ELSE IF SubSeq(s, 1, Len(old)) = old
       THEN new \o ReplaceAll(SubSeq(s, Len(old) + 1, Len(s)), old, new)
       ELSE <<Head(s)>> \o ReplaceAll(Tail(s), old, new)

\* NormalizeDeployKey without its second strings.TrimSpace
NormalizeDeployKeyOneTrim(value) ==
  LET unix == ReplaceAll(ReplaceAll(Trim(value, WhiteSpace), <<"CR", "LF">>, <<"LF">>),
                         <<"CR">>, <<"LF">>)
      normalized == IF ContainsSub(unix, <<"\\", "n">>) /\ ~ContainsSub(unix, <<"LF">>)
                    THEN ReplaceAll(unix, <<"\\", "n">>, <<"LF">>)
                    ELSE unix
  IN IF normalized = <<>> THEN <<>> ELSE normalized \o <<"LF">>

NormalizeDeployKey(value) ==
  LET unix == ReplaceAll(ReplaceAll(Trim(value, WhiteSpace), <<"CR", "LF">>, <<"LF">>),
                         <<"CR">>, <<"LF">>)
      literal == IF ContainsSub(unix, <<"\\", "n">>) /\ ~ContainsSub(unix, <<"LF">>)
                 THEN ReplaceAll(unix, <<"\\", "n">>, <<"LF">>)
                 ELSE unix
      normalized == Trim(literal, WhiteSpace)
  IN IF normalized = <<>> THEN <<>> ELSE normalized \o <<"LF">>

\* one call of NormalizeDeployKey, and a second call on its result
NormalizeCall(value) ==
  /\ lib = NoCall
  /\ lib' = [fn |-> "NormalizeDeployKey", in |-> value,
             out |-> NormalizeDeployKey(value),
             again |-> NormalizeDeployKey(NormalizeDeployKey(value))]
  /\ UNCHANGED <<apps, creds, minted, remote, rec, fs, del, reg, pollers, retry, resp,
                 deleted, ctx, sup>>

NormalizeNext == \E value \in SeqsUpTo(KeyRunes, MaxKeyLen) : NormalizeCall(value)

NormalizeSpec == Init /\ [][NormalizeNext]_vars

\* C22: NormalizeDeployKey is idempotent, and its result is either empty or ends with
\* exactly one newline: the last character is LF and the one before it is no white space.
C22_NormalizeIdempotent ==
  lib.fn = "NormalizeDeployKey" =>
    /\ lib.again = lib.out
    /\ lib.out # <<>> =>
         /\ Len(lib.out) >= 2
         /\ lib.out[Len(lib.out)] = "LF"
         /\ lib.out[Len(lib.out) - 1] \notin WhiteSpace
\* a key sent with a literal "\n" sequence inside and white space at its end
C22_Witness ==
  /\ lib.fn = "NormalizeDeployKey"
  /\ ContainsSub(lib.in, <<"\\", "n">>)
  /\ lib.in[Len(lib.in)] \in WhiteSpace
  /\ lib.out = <<"k", "LF", "k", "LF">>

(***************************************************************************)
(* credentials.Service (AES-256-GCM under the one key of the process) and  *)
(* the path of a deploy key through it: AddWithDeployKey seals the         *)
(* normalised key, GetDeployKey opens and normalises it.  The AEAD of      *)
(* crypto/cipher is modelled as ideal: a ciphertext opens only unmodified  *)
(* and only under the nonce it was sealed with.                            *)
(***************************************************************************)
\* longest plaintext handed to Encrypt
MaxPlainLen == 3
\* values rand.Read can put into a nonce
Nonces == {"n1", "n2"}
Plaintexts == SeqsUpTo(KeyRunes, MaxPlainLen)

\* aead.Seal(nil, nonce, plaintext, nil) and aead.Open(nil, nonce, ciphertext, nil)
Seal(nonce, plaintext) == [sealed |-> plaintext, under |-> nonce, intact |-> TRUE]
Open(nonce, ciphertext) ==
  IF ciphertext.intact /\ ciphertext.under = nonce
  THEN [err |-> FALSE, plaintext |-> ciphertext.sealed]
  ELSE [err |-> TRUE, plaintext |-> <<>>]

\* Service.Encrypt with the nonce rand.Read produced
Encrypt(plaintext, nonce) == [ciphertext |-> Seal(nonce, plaintext), nonce |-> nonce]

\* a Decrypt that returns the bytes of a failed Open
DecryptUnauthenticated(ciphertext, nonce) ==
  [err |-> FALSE, plaintext |-> ciphertext.sealed]

\* Service.Decrypt
Decrypt(ciphertext, nonce) ==
  LET opened == Open(nonce, ciphertext)
  IN IF opened.err THEN [err |-> TRUE, plaintext |-> <<>>] ELSE opened

\* Registry.GetDeployKey on an existing credential row
GetDeployKey(credential) ==
  LET deployKey == Decrypt(credential.ciphertext, credential.nonce)
  IN IF deployKey.err THEN [err |-> TRUE, key |-> <<>>]
     ELSE [err |-> FALSE, key |-> NormalizeDeployKey(deployKey.plaintext)]

\* Encrypt(plaintext) of any plaintext; AddWithDeployKey calls it with the normalised
\* deploy key and stores the pair as the credential row
EncryptCall(plaintext, nonce, add) ==
  /\ lib = NoCall
  /\ LET given == IF add THEN NormalizeDeployKey(plaintext) ELSE plaintext
         sealed == Encrypt(given, nonce)
     IN /\ add => given # <<>>
        /\ lib' = [fn |-> "Encrypt", in |-> plaintext, add |-> add,
                   returned |-> sealed, row |-> sealed]
  /\ UNCHANGED <<apps, creds, minted, remote, rec, fs, del, reg, pollers, retry, resp,
                 deleted, ctx, sup>>

\* the stored ciphertext or nonce is modified between the two calls
TamperRow(what, nonce) ==
  /\ lib.fn = "Encrypt"
  /\ lib.row = lib.returned
  /\ \/ /\ what = "ciphertext"
        /\ lib' = [lib EXCEPT !.row.ciphertext.intact = FALSE]
     \/ /\ what = "nonce"
        /\ nonce # lib.row.nonce
        /\ lib' = [lib EXCEPT !.row.nonce = nonce]
  /\ UNCHANGED <<apps, creds, minted, remote, rec, fs, del, reg, pollers, retry, resp,
                 deleted, ctx, sup>>

\* Decrypt(ciphertext, nonce), by GetDeployKey when the pair is a credential row
DecryptCall ==
  /\ lib.fn = "Encrypt"
  /\ lib' = [fn |-> "Decrypt", in |-> lib.in, add |-> lib.add,
             returned |-> lib.returned, row |-> lib.row,
             out |-> Decrypt(lib.row.ciphertext, lib.row.nonce),
             key |-> IF lib.add THEN GetDeployKey(lib.row) ELSE [err |-> TRUE, key |-> <<>>]]
  /\ UNCHANGED <<apps, creds, minted, remote, rec, fs, del, reg, pollers, retry, resp,
                 deleted, ctx, sup>>

CryptoNext ==
  \/ \E plaintext \in Plaintexts, nonce \in Nonces, add \in BOOLEAN :
       EncryptCall(plaintext, nonce, add)
  \/ \E what \in {"ciphertext", "nonce"}, nonce \in Nonces : TamperRow(what, nonce)
  \/ DecryptCall

CryptoSpec == Init /\ [][CryptoNext]_vars

C24_Frame == apps' = apps /\ creds' = creds

\* C24: UpdateAppCommit, UpdateAppStatus, UpdateAppSyncProgress, UpdateAppSyncResult and
\* DeleteApp called with an id that has no app row report not-found and leave every row
\* of the store as it is; the writes of a sync whose app was deleted mid-flight create
\* and alter nothing.
C24_NotFoundWritesNothing ==
  [][/\ \A id \in AppIds :
          AppNotFound(apps, id) =>
            /\ \A c \in 0..MaxCommit :
                 UpdateAppCommit(apps, id, c, CommitSubject(c)) = apps
            /\ \A st \in {"pending", "syncing", "synced", "error"}, at \in {NilTime, Now} :
                 UpdateAppStatus(apps, id, st, at) = apps
            /\ \A out \in {OutPartial, OutOk} :
                 UpdateAppSyncProgress(apps, id, Now, out) = apps
            /\ \A st \in {"synced", "error"}, c \in 0..MaxCommit :
                 UpdateAppSyncResult(apps, id, st, Now, c, CommitSubject(c), OutOk, ErrNone) = apps
     /\ (rec.pc \in {"iter", "dispatch", "apply"} /\ rec' # rec
           /\ AppNotFound(apps, RecCur.id)) =>
          /\ C24_Frame
          /\ rec.pc = "iter" /\ rec'.pc = "dispatch" =>
               rec'.list[rec.idx].status = RecCur.status
     /\ \A r \in Reqs :
          (fs[r].pc \in {"mark", "apply", "result"} /\ fs'[r] # fs[r]
             /\ AppNotFound(apps, fs[r].app.id)) => C24_Frame
     /\ (del.pc = "delapp" /\ del' # del /\ AppNotFound(apps, del.id)) =>
          /\ C24_Frame
          /\ resp' = Response("delete", 404)]_vars
\* a force-sync has answered although its app row was deleted while Apply ran
C24_Witness ==
  /\ resp.h = "sync"
  /\ resp.code \in {200, 500}
  /\ \A id \in AppIds : ~RowExists(apps, id)

(***************************************************************************)
(* Registry.Delete when the store fails between its two statements.        *)
(***************************************************************************)
\* store.DeleteApp returns an error of the database (BeginTx, Exec or Commit failed)
\* after store.DeleteAppCredential has succeeded: its transaction leaves both tables as
\* they are, Registry.Delete returns the error and the handler answers 404
DelAppFails ==
  /\ del.pc = "delapp"
  /\ RowExists(apps, del.id)
  /\ del' = DelIdle
  /\ resp' = Response("delete", 404)
  /\ UNCHANGED <<apps, creds, minted, remote, rec, fs, reg, pollers, retry, deleted, ctx, sup, lib>>

DeleteNext ==
  \/ Register
  \/ Watcher
  \/ Delete
  \/ DelAppFails

DeleteSpec == Init /\ [][DeleteNext]_vars

\* C25: when Registry.Delete returns, either the app row and its credential row are both
\* gone, or (on any error) both are as they were: an app never survives a failed delete
\* without the credential row it had.
C25_DeleteAtomic ==
  [][(del.pc = "delapp" /\ del'.pc = "idle") =>
       IF resp' = Response("delete", 200)
       THEN ~RowExists(apps', del.id) /\ del.id \notin creds'
       ELSE (RowExists(apps', del.id) /\ del.had) => del.id \in creds']_vars

\* C26: after every supervisor tick the apps with a live poller are exactly the apps the
\* tick listed: a poller is started for each listed app that has none, the poller of each
\* app no longer listed is cancelled, and a poller is only ever started for an app that
\* has no live poller and never had one (no two live pollers for one app).
C26_PollersFollowRegistry ==
  [][/\ \A id \in AppIds :
          SupPollers(apps, pollers)[id].state = "running" <=> RowExists(apps, id)
     /\ \A id \in AppIds :
          pollers'[id].state # pollers[id].state =>
            /\ pollers'[id].state = "running" <=> RowExists(apps, id)
            /\ pollers'[id].state = "running" => pollers[id].state = "none"
            /\ pollers'[id].state = "stopped" => pollers[id].state = "running"]_vars
\* a tick has cancelled the poller of a deleted app
C26_Witness ==
  \E id \in AppIds : pollers[id].state = "stopped" /\ ~RowExists(apps, id)

\* Go's select takes the ctx.Done() case once it is the only one ready, and a tick that
\* is running ends: the supervisor and each poller return after the cancellation
ShutdownLiveSpec ==
  /\ ShutdownSpec
  /\ WF_vars(SupStop)
  /\ \A id \in AppIds : WF_vars(PollStop(id))

\* C27: after the supervisor context is cancelled the supervisor returns and every
\* poller it started returns; a poller that has returned performs no checkRepo and no
\* registry write, and the supervisor that has returned starts no poller.
C27_WatcherStops ==
  /\ (ctx = "cancelled") ~>
       (sup = "stopped" /\ \A id \in AppIds : pollers[id].state # "running")
  /\ [][/\ sup = "stopped" =>
             /\ sup' = sup
             /\ \A id \in AppIds : pollers'[id].state = "running" => pollers[id].state = "running"
        /\ \A id \in AppIds :
             (ctx = "cancelled" /\ pollers[id].state = "stopped") =>
               /\ pollers'[id] = pollers[id]
               /\ (RowExists(apps, id) /\ RowExists(apps', id)) =>
                    /\ apps'[id].seen = apps[id].seen
                    /\ apps'[id].seenMsg = apps[id].seenMsg]_vars
\* the supervisor and a poller it had started have both returned after the cancellation
C27_Witness ==
  /\ ctx = "cancelled"
  /\ sup = "stopped"
  /\ \E id \in AppIds : pollers[id].state = "stopped" /\ RowExists(apps, id)

(***************************************************************************)
(* One tick of a poller, whatever its outcome (PollTick is the tick that   *)
(* finds a new tip and records it).                                        *)
(***************************************************************************)
\* a comparison that finds every tip new
TipIsNewAlways(commitHash, app) == TRUE

\* the test "commitHash == app.LastSeenCommit" on the poller's own *App
TipIsNew(commitHash, app) == commitHash # app.seen

\* checkRepo(app); gitFails: clone, open, fetch, reference or checkout returned an error.
\* lib records the tick: its outcome and the number of registry writes it made
checkRepo(id, gitFails) ==
  /\ ctx = "live"
  /\ pollers[id].state = "running"
  /\ LET app == pollers[id]
         commitHash == remote[id]
         tick(err, writes) ==
           [fn |-> "checkRepo", id |-> id, err |-> err, writes |-> writes,
            odd |-> IF lib.fn = "checkRepo" THEN ~lib.odd ELSE TRUE]
     IN IF ~AuthOk(app, id) \/ gitFails
          THEN /\ lib' = tick(TRUE, 0)
               /\ UNCHANGED <<apps, pollers>>
        ELSE IF ~TipIsNew(commitHash, app)
          THEN /\ lib' = tick(FALSE, 0)
               /\ UNCHANGED <<apps, pollers>>
        ELSE /\ apps' = UpdateAppCommit(apps, id, commitHash, CommitSubject(commitHash))
             /\ pollers' = [pollers EXCEPT ![id].seen =
                               IF AppNotFound(apps, id) THEN @ ELSE commitHash]
             /\ lib' = tick(AppNotFound(apps, id), 1)
  /\ resp' = NoResp
  /\ UNCHANGED <<creds, minted, remote, rec, fs, del, reg, retry, deleted, ctx, sup>>

WatcherNext ==
  \/ Register
  \/ Delete
  \/ Reconciler
  \/ SupTick
  \/ \E id \in AppIds : EnvPush(id)
  \/ \E id \in AppIds, gitFails \in BOOLEAN : checkRepo(id, gitFails)

WatcherSpec == Init /\ [][WatcherNext]_vars

\* C28: a tick whose tip equals the app's last_seen_commit writes nothing to the
\* registry; a tick whose tip differs calls UpdateCommitWithMessage once, with the new
\* hash and its subject; a tick that fails writes nothing and makes no second attempt.
C28_TickWrites ==
  [][\A id \in AppIds :
       (lib' # lib /\ lib'.fn = "checkRepo" /\ lib'.id = id /\ RowExists(apps, id)) =>
         /\ creds' = creds
         /\ lib'.err => (apps' = apps /\ pollers' = pollers /\ lib'.writes = 0)
         /\ (~lib'.err /\ remote[id] = apps[id].seen) => (apps' = apps /\ lib'.writes = 0)
         /\ (~lib'.err /\ remote[id] # apps[id].seen) =>
              /\ lib'.writes = 1
              /\ apps' = [apps EXCEPT ![id].seen = remote[id],
                                      ![id].seenMsg = CommitSubject(remote[id]),
                                      ![id].status = "pending"]]_vars
\* a tick has found the tip it recorded before and left the synced app alone
C28_Witness ==
  /\ lib.fn = "checkRepo"
  /\ ~lib.err
  /\ lib.writes = 0
  /\ RowExists(apps, lib.id)
  /\ apps[lib.id].seen = remote[lib.id]
  /\ apps[lib.id].status = "synced"

\* C29: no step of the watcher changes last_synced_commit, last_synced_commit_message,
\* last_sync_output, last_sync_error or last_sync_at of an app, and no step of the
\* reconciler or of a force-sync (status, progress and terminal writes) changes
\* last_seen_commit or last_seen_commit_message.
C29_SeparateWriters ==
  [][\A id \in AppIds :
       (RowExists(apps, id) /\ RowExists(apps', id)) =>
         /\ pollers' # pollers =>
              /\ apps'[id].synced = apps[id].synced
              /\ apps'[id].syncedMsg = apps[id].syncedMsg
              /\ apps'[id].out = apps[id].out
              /\ apps'[id].err = apps[id].err
              /\ apps'[id].at = apps[id].at
         /\ (rec' # rec \/ fs' # fs) =>
              /\ apps'[id].seen = apps[id].seen
              /\ apps'[id].seenMsg = apps[id].seenMsg]_vars
\* the watcher has recorded a commit newer than the one a sync has applied
C29_Witness ==
  \E id \in AppIds :
    /\ RowExists(apps, id)
    /\ apps[id].synced # NoCommit
    /\ apps[id].seen # apps[id].synced
    /\ apps[id].out # OutNone

(***************************************************************************)
(* The entry guard of Reconciler.reconcileOnce under a second caller: rec  *)
(* is the call of the Run loop, lib the call of another goroutine on the   *)
(* same Reconciler.  Both test and set rec.running under r.mu.             *)
(***************************************************************************)
\* a guard that lets every call through
GuardAdmitsAlways(running) == TRUE

\* "if r.running { return }" under the mutex
GuardAdmits(running) == ~running

\* the other goroutine calls reconcileOnce: it passes the guard and sets running, or
\* returns at once (dropped)
OtherEnter ==
  /\ lib.fn = "reconcileOnce" => lib.pc = "out"
  /\ LET call(pc) == [fn |-> "reconcileOnce", pc |-> pc, dropped |-> pc = "out",
                      odd |-> IF lib.fn = "reconcileOnce" THEN ~lib.odd ELSE TRUE]
     IN IF GuardAdmits(rec.running)
          THEN /\ rec' = [rec EXCEPT !.running = TRUE]
               /\ lib' = call("in")
          ELSE /\ rec' = rec
               /\ lib' = call("out")
  /\ resp' = NoResp
  /\ UNCHANGED <<apps, creds, minted, remote, fs, del, reg, pollers, retry, deleted, ctx, sup>>

\* the other call returns (normally or by a panic): the deferred function resets running
OtherExit ==
  /\ lib.fn = "reconcileOnce"
  /\ lib.pc = "in"
  /\ rec' = [rec EXCEPT !.running = FALSE]
  /\ lib' = [lib EXCEPT !.pc = "out"]
  /\ resp' = NoResp
  /\ UNCHANGED <<apps, creds, minted, remote, fs, del, reg, pollers, retry, deleted, ctx, sup>>

OverlapNext ==
  \/ Reconciler
  \/ Register
  \/ Watcher
  \/ OtherEnter
  \/ OtherExit

OverlapSpec == Init /\ [][OverlapNext]_vars

\* is the other call past the guard
OtherInside == lib.fn = "reconcileOnce" /\ lib.pc = "in"

\* C30: at most one execution of reconcileOnce is past the entry guard; a call that finds
\* running = true returns at once and reads and writes nothing; running is false again
\* whenever no execution is past the guard, so a later tick is admitted.
C30_NonReentrant ==
  [][/\ ~(OtherInside /\ rec.pc # "idle")
     /\ rec.running <=> (OtherInside \/ rec.pc # "idle")
     /\ (lib' # lib /\ lib'.dropped) =>
          /\ rec.running
          /\ UNCHANGED <<apps, creds, rec, pollers, remote>>
     /\ (rec.pc = "idle" /\ rec'.pc # "idle") => ~rec.running]_vars
\* a call was dropped while the execution of the Run loop was inside syncApp
C30_Witness ==
  /\ lib.fn = "reconcileOnce"
  /\ lib.dropped
  /\ rec.pc = "apply"

(***************************************************************************)
(* Process restart: every goroutine is gone, the store keeps its rows.     *)
(* main starts the reconciler and the watcher again.                       *)
(***************************************************************************)
\* the process is killed and started again (once per behaviour)
Restart ==
  /\ lib = NoCall
  /\ lib' = [fn |-> "restart"]
  /\ rec' = RecIdle
  /\ fs' = [r \in Reqs |-> FsIdle]
  /\ del' = DelIdle
  /\ reg' = RegIdle
  /\ pollers' = [id \in AppIds |-> NoPoller]
  /\ resp' = NoResp
  /\ UNCHANGED <<apps, creds, minted, remote, retry, deleted, ctx, sup>>

RecoveryNext ==
  \/ Reconciler
  \/ Register
  \/ Watcher
  \/ Restart

\* the ticker of Reconciler.Run keeps firing and Apply returns: it runs under
\* context.WithTimeout(context.Background(), SyncTimeout)
RecoverySpec ==
  /\ Init
  /\ [][RecoveryNext]_vars
  /\ WF_vars(Reconciler)

ApplyCallers == {"reconciler", "forcesync"}

\* the steps of Apply in the order of its code
ApplySteps == <<"validate", "preflight", "prepareRepo", "composeFile", "pull", "up">>

\* one call: its arguments (as blank / not blank), the steps run so far, the section
\* titles of syncLog, the step that failed, and what was returned
ApplyIdle ==
  [pc |-> "idle", url |-> TRUE, path |-> TRUE, key |-> FALSE,
   ran |-> <<>>, log |-> <<>>, failed |-> "none", out |-> <<>>, err |-> ""]

\* no call in progress and no key file in <app_dir>/.ssh
ExecIdle == [fn |-> "Apply", keyFile |-> FALSE, call |-> [c \in ApplyCallers |-> ApplyIdle]]

\* a step that carries on whatever the error of the step was
ReturnOnErrorNever(ok, next) == next

\* `if err != nil { return ... }` after a step: where the call goes next
ReturnOnError(ok, next) == IF ok THEN next ELSE "return"

\* the state of a call after one step: the step is recorded, its section is appended
\* to syncLog, and on an error that returns, the transcript so far and the error
AfterStep(cs, step, section, ok, next, errText) ==
  LET log == Append(cs.log, section)
      pc == ReturnOnError(ok, next)
  IN [cs EXCEPT !.ran = Append(@, step),
                !.log = log,
                !.pc = pc,
                !.failed = IF ok THEN @ ELSE step,
                !.out = IF pc = "return" THEN log ELSE @,
                !.err = IF pc = "return" THEN errText ELSE @]

ExecUnchanged ==
  UNCHANGED <<apps, creds, minted, remote, rec, fs, del, reg, pollers, retry, resp,
              deleted, ctx, sup>>

\* a caller enters Apply
ApplyCall(c, url, path, key) ==
  /\ lib.call[c].pc = "idle"
  /\ lib' = [lib EXCEPT !.call[c] =
               [ApplyIdle EXCEPT !.pc = "validate", !.url = url, !.path = path, !.key = key]]
  /\ ExecUnchanged

\* filepath.Abs and MkdirAll of the app directory, then the checks of repoURL and
\* composePath and the "Sync started" header
ApplyValidate(c, dirOk) ==
  LET cs == lib.call[c] IN
  /\ cs.pc = "validate"
  /\ lib' = [lib EXCEPT !.call[c] =
       IF ~dirOk THEN AfterStep(cs, "validate", "Sync setup", FALSE, "preflight",
                                "failed to create app dir")
       ELSE IF ~cs.url THEN AfterStep(cs, "validate", "Validation", FALSE, "preflight",
                                      "repo url is empty")
       ELSE IF ~cs.path THEN AfterStep(cs, "validate", "Validation", FALSE, "preflight",
                                       "compose path is empty")
       ELSE AfterStep(cs, "validate", "Sync started", TRUE, "preflight", "")]
  /\ ExecUnchanged

\* ensureDockerPreflight
ApplyPreflight(c, ok) ==
  LET cs == lib.call[c] IN
  /\ cs.pc = "preflight"
  /\ lib' = [lib EXCEPT !.call[c] =
       AfterStep(cs, "preflight", "Docker preflight", ok, "gitenv", "docker preflight failed")]
  /\ ExecUnchanged

\* prepareRepo up to `defer cleanup()`: buildGitEnv. Without a deploy key it does
\* nothing. With one, res is "ok" (key file written), "nofile" (ResolveKnownHostsPath,
\* MkdirAll or the open of os.WriteFile failed) or "partial" (the write or the close of
\* os.WriteFile failed after the file was created); on an error no cleanup is deferred
buildGitEnv(c, res) ==
  LET cs == lib.call[c] IN
  /\ cs.pc = "gitenv"
  /\ ~cs.key => res = "ok"
  /\ lib' = [lib EXCEPT
       !.keyFile = IF cs.key /\ res # "nofile" THEN TRUE ELSE @,
       !.call[c] = IF res = "ok" THEN [cs EXCEPT !.pc = "git"]
                   ELSE AfterStep(cs, "prepareRepo", "Repository sync", FALSE, "composeFile",
                                  "prepare repo failed")]
  /\ ExecUnchanged

\* the rest of prepareRepo: the git commands, of which the first that fails returns,
\* and the deferred cleanup, which removes the key file when a key was given
prepareRepo(c, ok) ==
  LET cs == lib.call[c] IN
  /\ cs.pc = "git"
  /\ lib' = [lib EXCEPT
       !.keyFile = IF cs.key THEN FALSE ELSE @,
       !.call[c] = AfterStep(cs, "prepareRepo", "Repository sync", ok, "composeFile",
                             "prepare repo failed")]
  /\ ExecUnchanged

\* os.Stat of the compose directory and of the compose file (content is "")
ApplyComposeFile(c, ok) ==
  LET cs == lib.call[c] IN
  /\ cs.pc = "composeFile"
  /\ lib' = [lib EXCEPT !.call[c] =
       AfterStep(cs, "composeFile", "Compose file", ok, "pull", "compose file not found")]
  /\ ExecUnchanged

\* docker compose pull
ApplyPull(c, ok) ==
  LET cs == lib.call[c] IN
  /\ cs.pc = "pull"
  /\ lib' = [lib EXCEPT !.call[c] =
       AfterStep(cs, "pull", "Docker image pull", ok, "up", "pull failed")]
  /\ ExecUnchanged

\* docker compose up -d --remove-orphans, and on success the "Sync completed" section
ApplyUp(c, ok) ==
  LET cs == lib.call[c]
      s == AfterStep(cs, "up", "Compose apply", ok, "return", "up failed")
  IN
  /\ cs.pc = "up"
  /\ lib' = [lib EXCEPT !.call[c] =
       IF ok THEN [s EXCEPT !.log = Append(@, "Sync completed"),
                            !.out = Append(s.log, "Sync completed"),
                            !.err = ""]
             ELSE s]
  /\ ExecUnchanged

\* the caller has taken the result; it may call again
ApplyReturned(c) ==
  /\ lib.call[c].pc = "return"
  /\ lib' = [lib EXCEPT !.call[c] = ApplyIdle]
  /\ ExecUnchanged

ApplyInit ==
  /\ lib = ExecIdle
  /\ apps = [id \in AppIds |-> NoRow]
  /\ creds = {}
  /\ minted = {}
  /\ remote = [id \in AppIds |-> 1]
  /\ rec = RecIdle
  /\ fs = [r \in Reqs |-> FsIdle]
  /\ del = DelIdle
  /\ reg = RegIdle
  /\ resp = NoResp
  /\ pollers = [id \in AppIds |-> NoPoller]
  /\ retry = FALSE
  /\ deleted = {}
  /\ ctx = "live"
  /\ sup = "running"

ApplyNext ==
  \E c \in ApplyCallers :
    \/ \E url \in BOOLEAN, path \in BOOLEAN, key \in BOOLEAN : ApplyCall(c, url, path, key)
    \/ \E dirOk \in BOOLEAN : ApplyValidate(c, dirOk)
    \/ \E ok \in BOOLEAN : ApplyPreflight(c, ok)
    \/ \E res \in {"ok", "nofile", "partial"} : buildGitEnv(c, res)
    \/ \E ok \in BOOLEAN : prepareRepo(c, ok)
    \/ \E ok \in BOOLEAN : ApplyComposeFile(c, ok)
    \/ \E ok \in BOOLEAN : ApplyPull(c, ok)
    \/ \E ok \in BOOLEAN : ApplyUp(c, ok)
    \/ ApplyReturned(c)

ApplySpec == ApplyInit /\ [][ApplyNext]_vars

\* is s a prefix of t?
IsPrefix(s, t) == Len(s) <= Len(t) /\ \A i \in 1..Len(s) : s[i] = t[i]

\* C33: in every call the steps run so far are a prefix of validate, preflight,
\* prepare repo, compose-file check, pull, up; a step that failed is the last step
\* that ran and the call is returning with a non-empty error and the transcript of
\* exactly the sections written up to that step; compose up has not run in a call
\* whose pull or repo preparation failed
C33_StepsInOrder ==
  \A c \in ApplyCallers :
    LET cs == lib.call[c] IN
    /\ IsPrefix(cs.ran, ApplySteps)
    /\ cs.failed # "none" =>
         /\ cs.pc = "return"
         /\ cs.ran # <<>> /\ cs.ran[Len(cs.ran)] = cs.failed
         /\ cs.err # ""
         /\ cs.out = cs.log /\ Len(cs.out) = Len(cs.ran)
    /\ (cs.pc = "return" /\ cs.failed = "none") =>
         /\ cs.ran = ApplySteps /\ cs.err = "" /\ cs.out = cs.log
    /\ cs.failed \in {"pull", "prepareRepo"} => \A i \in 1..Len(cs.ran) : cs.ran[i] # "up"

\* a call whose pull failed is returning: five steps ran, up did not
C33_Witness ==
  \E c \in ApplyCallers :
    /\ lib.call[c].pc = "return"
    /\ lib.call[c].failed = "pull"
    /\ lib.call[c].ran = SubSeq(ApplySteps, 1, 5)
    /\ lib.call[c].err = "pull failed"

\* C34: the key file is present only while a call that was given a deploy key is
\* between buildGitEnv and the return of prepareRepo, and never while any call runs
\* compose pull or compose up or has returned
C34_KeyFileOnlyDuringRepoPrep ==
  /\ lib.keyFile => \E c \in ApplyCallers : lib.call[c].key /\ lib.call[c].pc = "git"
  /\ lib.keyFile => \A c \in ApplyCallers :
                      lib.call[c].key => lib.call[c].pc \notin {"pull", "up", "return"}


(***************************************************************************)
(* Managed docker client: candidate versions, install, probe.              *)
(***************************************************************************)
\* versions on the download index are 1..n, n <= MaxVersions; API versions are
\* 1..MaxApi, and a daemon minimum of 0 stands for an empty MinAPIVersion
MaxVersions == 6
MaxApi == 2
CandidateLimit == 5

\* the newest min(5, n) versions of the sorted index, newest first
candidateVersions(n) ==
  LET limit == IF n < CandidateLimit THEN n ELSE CandidateLimit
  IN [i \in 1..limit |-> n + 1 - i]

\* dockerAPICompatible for a probe that reported a client API version
dockerAPICompatible(clientAPI, minServerAPI) ==
  minServerAPI = 0 \/ clientAPI >= minServerAPI

\* ensureManagedDockerCLI without a pinned version: the first candidate whose
\* installDockerBinaryVersion succeeds is returned; it is not probed here
ensureManagedDockerCLI(n, installs) ==
  LET cands == candidateVersions(n)
      okAt == {i \in 1..Len(cands) : cands[i] \in installs}
  IN IF okAt = {} THEN [err |-> TRUE, version |-> 0]
     ELSE [err |-> FALSE, version |-> cands[CHOOSE i \in okAt : \A j \in okAt : i <= j]]

\* buildDockerResolution after an incompatible system client: one managed install, one
\* probe of it, one compatibility check (the probe itself and compose succeed)
buildDockerResolution(n, installs, api, minServerAPI) ==
  LET m == ensureManagedDockerCLI(n, installs) IN
  IF m.err THEN [err |-> TRUE, version |-> 0]
  ELSE IF ~dockerAPICompatible(api[m.version], minServerAPI)
    THEN [err |-> TRUE, version |-> m.version]
    ELSE [err |-> FALSE, version |-> m.version]

resolveDockerCommand(n, installs, api, minServerAPI) ==
  /\ lib = NoCall
  /\ lib' = [fn |-> "buildDockerResolution", n |-> n, installs |-> installs, api |-> api,
             min |-> minServerAPI,
             out |-> buildDockerResolution(n, installs, api, minServerAPI)]
  /\ UNCHANGED <<apps, creds, minted, remote, rec, fs, del, reg, pollers, retry, resp,
                 deleted, ctx, sup>>

ResolveNext ==
  /\ lib = NoCall
  /\ \E n \in 0..MaxVersions :
    \E installs \in SUBSET (1..n), api \in [1..n -> 1..MaxApi], m \in 0..MaxApi :
      resolveDockerCommand(n, installs, api, m)

ResolveSpec == Init /\ [][ResolveNext]_vars

\* C35: resolution through the managed client succeeds exactly when one of the (up to
\* five newest) candidates installs and probes as compatible with the daemon minimum,
\* and the version it uses is the newest such candidate
C35_FirstCompatibleCandidate ==
  lib.fn = "buildDockerResolution" =>
    LET cands == candidateVersions(lib.n)
        good == {i \in 1..Len(cands) :
                   /\ cands[i] \in lib.installs
                   /\ dockerAPICompatible(lib.api[cands[i]], lib.min)}
    IN /\ lib.out.err <=> good = {}
       /\ ~lib.out.err => lib.out.version = cands[CHOOSE i \in good : \A j \in good : i <= j]


(***************************************************************************)
(* SnapshotProjects and the drift check.                                   *)
(***************************************************************************)
MaxContainers == 3

\* one line of `docker ps -a`: the compose project label, the one-off label, and of
\* the status text whether it starts with "up " and whether it contains "(unhealthy)"
PsLines ==
  [project : AppIds \cup {"other"}, oneoff : BOOLEAN, up : BOOLEAN, unhealthy : BOOLEAN]

\* number of lines counted for project id: all of them, or those of one kind
RECURSIVE CountLines(_, _, _)
CountLines(lines, id, kind) ==
  IF lines = <<>> THEN 0
  ELSE LET l == Head(lines)
           hit == /\ l.project = id /\ ~l.oneoff
                  /\ CASE kind = "all" -> TRUE
                       [] kind = "running" -> l.up
                       [] kind = "exited" -> ~l.up
                       [] kind = "unhealthy" -> l.unhealthy
       IN (IF hit THEN 1 ELSE 0) + CountLines(Tail(lines), id, kind)

\* SnapshotProjects: one pass over the lines; a project without a counted line has no
\* entry in the map
SnapshotProjects(lines) ==
  [id \in AppIds |->
     ProjectRuntimeState(CountLines(lines, id, "all"), CountLines(lines, id, "running"),
                         CountLines(lines, id, "exited"), CountLines(lines, id, "unhealthy"))]

\* captureRuntimeSnapshot followed by the drift check of one app
driftCheck(id, lines) ==
  /\ lib = NoCall
  /\ LET snapshot == SnapshotProjects(lines) IN
     lib' = [fn |-> "runtimeDriftReason", id |-> id, lines |-> lines, state |-> snapshot[id],
             reason |-> runtimeDriftReason(id, snapshot)]
  /\ UNCHANGED <<apps, creds, minted, remote, rec, fs, del, reg, pollers, retry, resp,
                 deleted, ctx, sup>>

DriftNext ==
  /\ lib = NoCall
  /\ \E id \in AppIds, lines \in SeqsUpTo(PsLines, MaxContainers) : driftCheck(id, lines)

DriftSpec == Init /\ [][DriftNext]_vars

\* C36: on every state SnapshotProjects produces, the reason is empty exactly when the
\* project has an entry and IsHealthy holds, IsHealthy is container_count =
\* running_count > 0 with no exited and no unhealthy container, and a non-empty
\* reason is the first that applies of missing, unhealthy, exited, not running
C36_DriftAgreesWithHealthy ==
  lib.fn = "runtimeDriftReason" =>
    LET st == lib.state
        present == st # Absent
    IN /\ lib.reason = "" <=> (present /\ IsHealthy(st))
       /\ IsHealthy(st) <=> /\ st.ContainerCount = st.RunningCount
                            /\ st.RunningCount > 0
                            /\ st.ExitedCount = 0
                            /\ st.UnhealthyCount = 0
       /\ lib.reason =
            IF ~present THEN "runtime_missing"
            ELSE IF st.UnhealthyCount > 0 THEN "runtime_unhealthy"
            ELSE IF st.ExitedCount > 0 THEN "runtime_exited"
            ELSE IF st.RunningCount # st.ContainerCount THEN "runtime_not_running"
            ELSE ""

\* a project with a running unhealthy container and an exited one: unhealthy wins
C36_Witness ==
  /\ lib.fn = "runtimeDriftReason"
  /\ lib.state.UnhealthyCount > 0
  /\ lib.state.ExitedCount > 0
  /\ lib.state.RunningCount > 0
  /\ lib.reason = "runtime_unhealthy"


(***************************************************************************)
(* Status synced and the two commits.                                      *)
(***************************************************************************)
\* C37: every app whose status is synced has last_synced_commit = last_seen_commit
\* (so a terminal synced write never replaces the pending status of a commit the
\* watcher recorded while the Apply ran)
C37_SyncedIsUpToDate ==
  \A id \in AppIds :
    (RowExists(apps, id) /\ apps[id].status = "synced") =>
      apps[id].synced = apps[id].seen


(***************************************************************************)
(* Delete and the syncs of the same app.                                   *)
(***************************************************************************)
\* C38: once DELETE /apps/{id} has answered 200 for an app, no Apply for that app is
\* in flight (and so none starts or continues afterwards)
C38_NoApplyAfterDelete ==
  \A a \in deleted : ApplyCount(a) = 0


(***************************************************************************)
(* One force sync: progress writes, the final Flush, the terminal write.   *)
(***************************************************************************)
\* transcripts Apply passes to the progress callback while it runs
PartialTranscripts == {OutPartial, "transcript_partial_2"}

\* force syncs whose Apply reports changing transcripts, next to registrations and the
\* watcher
ProgressNext ==
  \/ Register
  \/ Watcher
  \/ \E r \in Reqs :
       \/ \E id \in AppIds : FsGet(r, id)
       \/ \E now \in Times : FsMark(r, now)
       \/ \E value \in PartialTranscripts, elapsed \in BOOLEAN, now \in Times :
            FsProgress(r, value, elapsed, now)
       \/ \E ok \in BOOLEAN, now \in Times : FsFlush(r, ok, now)
       \/ \E now \in Times : FsResult(r, now)

ProgressSpec == Init /\ [][ProgressNext]_vars

\* C39: a partial transcript is written to an app only while a force sync of that app
\* is inside Apply or in its Flush; the Flush leaves the last value passed to Update
\* in last_sync_output; the step of a force sync after its Flush is its terminal
\* write; and no step turns a synced or error status back to syncing except the
\* UpdateStatus of a sync that starts
C39_ProgressBeforeTerminal ==
  [][\A id \in AppIds :
       (RowExists(apps, id) /\ RowExists(apps', id)) =>
         /\ (\A r \in Reqs : ~FsApplying(r, id)) =>
              \/ apps'[id].out = apps[id].out
              \/ apps'[id].out \notin PartialTranscripts
         /\ \A r \in Reqs :
              /\ (FsApplying(r, id) /\ fs'[r].pc = "result" /\ fs[r].last # OutNone) =>
                   /\ apps'[id].out = fs[r].last
                   /\ apps'[id].status = "syncing"
              /\ (fs[r].pc = "result" /\ fs[r].app.id = id /\ fs'[r] # fs[r]) =>
                   /\ fs'[r].pc = "idle"
                   /\ apps'[id].status \in {"synced", "error"}
                   /\ apps'[id].out \in {OutOk, OutFail}
         /\ (apps[id].status \in {"synced", "error"} /\ apps'[id].status = "syncing") =>
              \E r \in Reqs : fs[r].pc = "mark" /\ fs[r].app.id = id]_vars

\* the sync has flushed the second transcript and is about to write its terminal result
C39_Witness ==
  \E r \in Reqs :
    /\ fs[r].pc = "result"
    /\ fs[r].last = "transcript_partial_2"
    /\ RowExists(apps, fs[r].app.id)
    /\ apps[fs[r].app.id].out = "transcript_partial_2"
    /\ apps[fs[r].app.id].status = "syncing"


(***************************************************************************)
(* Project names of registered apps.                                       *)
(***************************************************************************)
\* ids uuid.NewString() returns: 8-4-4-4-12 lower-case hexadecimal digits; the first
\* digit, the first digit of the second group and the last digit vary, the version
\* and variant digits are fixed
Uuids ==
  {<<x>> \o Repeat("0", 7) \o <<"-", y>> \o Repeat("0", 3) \o <<"-", "0">>
     \o Repeat("0", 3) \o <<"-", "a">> \o Repeat("0", 3) \o <<"-">> \o Repeat("0", 11)
     \o <<z>> : x \in HexRunes, y \in HexRunes, z \in HexRunes}

\* the project names of two registered apps, as the drift check, Apply and Destroy
\* compute them
ProjectNamesOf(id1, id2) ==
  /\ lib' = [fn |-> "ProjectNameForApp", ids |-> <<id1, id2>>,
             names |-> <<composeProjectName(id1), composeProjectName(id2)>>]
  /\ UNCHANGED <<apps, creds, minted, remote, rec, fs, del, reg, pollers, retry, resp,
                 deleted, ctx, sup>>

InjectNext ==
  /\ lib = NoCall
  /\ \E id1 \in Uuids, id2 \in Uuids : ProjectNamesOf(id1, id2)

InjectSpec == Init /\ [][InjectNext]_vars

\* C40: two different ids that registration can assign have different project names
C40_ProjectNamesDistinct ==
  (lib.fn = "ProjectNameForApp" /\ lib.ids[1] # lib.ids[2]) => lib.names[1] # lib.names[2]

\* two ids that differ in their last digit only, each its own project name
C40_Witness ==
  /\ lib.fn = "ProjectNameForApp"
  /\ lib.ids[1] # lib.ids[2]
  /\ SubSeq(lib.ids[1], 1, 35) = SubSeq(lib.ids[2], 1, 35)
  /\ lib.names = lib.ids

====
